---- MODULE Spec2Model ----
(***************************************************************************)
(* The Good Fight TTRPG tracker: Deck, Dice, GameState, UI relay modals    *)
(* and the App recruitment pipeline (beginGame, continueGame, drawToPool,  *)
(* attemptRecruit), with the JavaScript run-to-completion / microtask      *)
(* scheduling of the async functions made explicit.                        *)
(***************************************************************************)
EXTENDS Integers, Sequences, FiniteSets, TLC

VARIABLES
    gameState,      \* App.gameState: Null or the game record
    activeScreen,   \* App.activeScreen
    screenActive,   \* DOM: the 'active' class of each [data-screen] element
    diceProvider,   \* Dice.provider
    deckProvider,   \* Deck.provider
    localStorage,   \* window.localStorage: key -> item
    tasks,          \* suspended async calls of drawToPool / attemptRecruit
    microtasks,     \* promise reactions queued for the suspended calls (FIFO)
    overlays        \* .modal-overlay elements under document.body, in DOM order

vars == <<gameState, activeScreen, screenActive, diceProvider, deckProvider,
          localStorage, tasks, microtasks, overlays>>

----------------------------------------------------------------------------
(* Bounds of the model *)

MaxTasks == 2       \* async calls suspended at the same time
MaxLog == 2         \* turnLog entries a game is driven to
MaxCount == 2       \* largest count passed to drawToPool
NumSeeds == 1       \* random streams offered to Deck.shuffle
MaxSupplies == 12   \* addSupplies is not driven beyond this value
DeckSize == 3       \* cards of the largest deck handed to Deck.draw / Deck.returnCards
NumPicks == 2       \* distinct cards a player may enter in the card picker

----------------------------------------------------------------------------
(* Small helpers *)

Min(a, b) == IF a < b THEN a ELSE b

Max(a, b) == IF a > b THEN a ELSE b

\* JavaScript null / undefined
Null == [null |-> TRUE]

Range(s) == {s[i] : i \in 1..Len(s)}

\* Array.prototype.splice(start, deleteCount) on a 0-based start: what is left
SpliceRest(s, start, n) ==
    SubSeq(s, 1, Min(start, Len(s))) \o SubSeq(s, Min(start + n, Len(s)) + 1, Len(s))

\* Array.prototype.splice(start, deleteCount): what is removed and returned
SpliceOut(s, start, n) == SubSeq(s, Min(start, Len(s)) + 1, Min(start + n, Len(s)))

----------------------------------------------------------------------------
(* deck.js *)

SUITS == <<"hearts", "diamonds", "clubs", "spades">>

RANKS == <<"2", "3", "4", "5", "6", "7", "8", "9", "10", "J", "Q", "K", "A">>

VALUE_MAP == [r \in Range(RANKS) |->
    CASE r = "2" -> 2 [] r = "3" -> 3 [] r = "4" -> 4 [] r = "5" -> 5
      [] r = "6" -> 6 [] r = "7" -> 7 [] r = "8" -> 8 [] r = "9" -> 9
      [] r = "10" -> 10 [] r = "J" -> 11 [] r = "Q" -> 12 [] r = "K" -> 13
      [] r = "A" -> 15]

cardValue(rank) == VALUE_MAP[rank]

Card(suit, rank) == [suit |-> suit, rank |-> rank, value |-> VALUE_MAP[rank]]

\* a deck whose inner loop stops one rank early and is run again from the
\* first rank: 52 cards, no ace, repeated twos
createDeck_noAce ==
    [k \in 1..(Len(SUITS) * Len(RANKS)) |->
        Card(SUITS[((k - 1) \div Len(RANKS)) + 1], RANKS[((k - 1) % (Len(RANKS) - 1)) + 1])]

\* for (suit of SUITS) for (rank of RANKS) deck.push({suit, rank, value})
createDeck ==
    [k \in 1..(Len(SUITS) * Len(RANKS)) |->
        Card(SUITS[((k - 1) \div Len(RANKS)) + 1], RANKS[((k - 1) % Len(RANKS)) + 1])]

\* Math.floor(Math.random() * (i + 1)) for the i-th step of a shuffle, under
\* random stream `seed`: some index in 0..i
RandomIndex(seed, i) == ((seed + 3) * (i + 5) + seed * i * i) % (i + 1)

\* a swap that writes one of its two cells only
Swap_copy(s, a, b) == [s EXCEPT ![a] = s[b]]

Swap(s, a, b) == [s EXCEPT ![a] = s[b], ![b] = s[a]]

RECURSIVE FisherYates(_, _, _)
\* the loop of shuffle from index i (0-based) down to 1
FisherYates(deck, i, seed) ==
    IF i <= 0 THEN deck
    ELSE FisherYates(Swap(deck, i + 1, RandomIndex(seed, i) + 1), i - 1, seed)

shuffle(deck, seed) == FisherYates(deck, Len(deck) - 1, seed)

Seeds == 0..(NumSeeds - 1)

\* Deck.shuffle(Deck.createDeck()) under each random stream
ShuffledDeck == [seed \in Seeds \cup {0, 1} |-> shuffle(createDeck, seed)]

\* a draw that hands out the requested count whatever the deck holds, the
\* cards the deck lacks made up from a fresh deck
digitalDrawn_noMin(deck, count) == SubSeq(deck \o createDeck, 1, count)

\* digitalDraw: actual = min(count, deck.length); drawn = deck.splice(0, actual)
digitalDrawn(deck, count) == SpliceOut(deck, 0, Min(count, Len(deck)))

\* slice in place of splice: the deck keeps the drawn cards
digitalRest_slice(deck, count) == deck

digitalRest(deck, count) == SpliceRest(deck, 0, Min(count, Len(deck)))

\* returnCards: deck.push(...cards); shuffle(deck), under random stream seed
returnCards(deck, cards, seed) == shuffle(deck \o cards, seed)

----------------------------------------------------------------------------
(* dice.js *)

DieTypes == {"d4", "d6", "d8", "d10", "d12", "d20", "d100"}

DIE_MAX == [d \in DieTypes |->
    CASE d = "d4" -> 4 [] d = "d6" -> 6 [] d = "d8" -> 8 [] d = "d10" -> 10
      [] d = "d12" -> 12 [] d = "d20" -> 20 [] d = "d100" -> 100]

\* DIE_MAX[key] for a key DIE_MAX lacks: undefined, a value apart from every
\* maximum
undefined == -1

\* die types a caller may pass: those of DIE_MAX and one it lacks
DieInputs == DieTypes \cup {"d7"}

getDieMax(dieType) == IF dieType \in DOMAIN DIE_MAX THEN DIE_MAX[dieType] ELSE undefined

\* value > max in JavaScript: false when max is undefined
GreaterThan(value, max) == max # undefined /\ value > max

\* the faces of a die followed through the model: lowest and highest
Faces(max) == {1, max}

\* the results of Math.random() followed: the least, 0, and 0.99
RandomSamples == {[num |-> 0, den |-> 100], [num |-> 99, den |-> 100]}

\* a roll without its + 1
digitalRoll_zeroBased(dieType) ==
    {(r.num * DIE_MAX[dieType]) \div r.den : r \in RandomSamples}

\* if (!max) throw new Error('Unknown die type')
digitalThrows(dieType) == getDieMax(dieType) = undefined

\* digitalRoll of a known die: Math.floor(Math.random() * max) + 1
digitalRoll(dieType) ==
    {((r.num * DIE_MAX[dieType]) \div r.den) + 1 : r \in RandomSamples}

----------------------------------------------------------------------------
(* state.js *)

STORAGE_PREFIX == "good-fight-save-"

InputModes == {"digital", "physical"}

createInitial ==
    [ resistanceValues |-> <<>>, regimeType |-> <<>>,
      inputMode |-> [dice |-> "digital", cards |-> "digital"],
      influence |-> 0, heat |-> 0, supplies |-> 0,
      recruitDeck |-> <<>>, recruitPool |-> <<>>, initiates |-> <<>>,
      operatives |-> <<>>, detainedOperatives |-> <<>>, leaderSkillLevel |-> 0,
      currentTurn |-> 1, assignments |-> <<>>, multiTurnOps |-> <<>>,
      availableMidGameOps |-> <<>>, availableLateGameOps |-> <<>>,
      completedLateGameOps |-> <<>>,
      turnLog |-> <<>> ]

\* clamp without its upper limit
clamp_noUpper(value, min, max) == Max(min, value)

clamp(value, min, max) == Max(min, Min(max, value))

\* an object written as JSON text: its members, each an own key and its value
ObjectText(obj) == {<<k, obj[k]>> : k \in DOMAIN obj}

\* the object that a text of members is read as
ObjectOf(members) ==
    [k \in {m[1] : m \in members} |-> (CHOOSE m \in members : m[1] = k)[2]]

\* JSON.stringify of a game: the text of its members, numbers, strings and
\* arrays written as the data they hold
JSONstringify(state) == [json |-> ObjectText(state)]

\* JSON.parse that loses a member
JSONparse_short(item) == ObjectOf(item.json \ {CHOOSE m \in item.json : TRUE})

\* JSON.parse of a stored item
JSONparse(item) == ObjectOf(item.json)

\* localStorage.getItem of a key never set
NoItem == Null

SlotNames == {"current"}

StorageKeys == {<<STORAGE_PREFIX, s>> : s \in SlotNames}

\* save under the prefix alone, whatever the slot name
save_oneKey(store, state, slotName) ==
    [key \in DOMAIN store |-> JSONstringify(state)]

\* GameState.save: localStorage.setItem(STORAGE_PREFIX + slotName, JSON.stringify(state))
save(store, state, slotName) ==
    [store EXCEPT ![<<STORAGE_PREFIX, slotName>>] = JSONstringify(state)]

\* GameState.load
load(store, slotName) ==
    IF store[<<STORAGE_PREFIX, slotName>>] = NoItem THEN Null
    ELSE JSONparse(store[<<STORAGE_PREFIX, slotName>>])

\* GameState.deleteSave: localStorage.removeItem(STORAGE_PREFIX + slotName)
deleteSave(store, slotName) ==
    [store EXCEPT ![<<STORAGE_PREFIX, slotName>>] = NoItem]

setInfluence(state, value) == [state EXCEPT !.influence = clamp(value, 0, 500)]

setHeat(state, value) == [state EXCEPT !.heat = clamp(value, 0, 100)]

setSupplies(state, value) == [state EXCEPT !.supplies = Max(0, value)]

addInfluence(state, delta) == setInfluence(state, state.influence + delta)

addHeat(state, delta) == setHeat(state, state.heat + delta)

addSupplies(state, delta) == setSupplies(state, state.supplies + delta)

----------------------------------------------------------------------------
(* app.js: screens and providers *)

ScreenNames == {"title", "setup", "game", "victory"}

\* showScreen that only adds 'active' to the named screen
showScreen_adds(name) ==
    /\ screenActive' = [s \in ScreenNames |-> screenActive[s] \/ s = name]
    /\ activeScreen' = name

\* showScreen(name): toggle 'active' on every [data-screen]; activeScreen = name
showScreen(name) ==
    /\ screenActive' = [s \in ScreenNames |-> s = name]
    /\ activeScreen' = name

\* currentScreen()
currentScreen == activeScreen

\* a sync that installs the dice relay whatever the mode
syncDice_always(gs) == "UI.diceInput"

\* syncInputProviders for game record gs: the providers it installs
syncDice(gs) == IF gs.inputMode.dice = "physical" THEN "UI.diceInput" ELSE "null"

syncCards(gs) == IF gs.inputMode.cards = "physical" THEN "UI.cardInput" ELSE "null"

\* the tiers compared with > in place of >=
getInfluenceDie_above(influence) ==
    IF influence > 300 THEN "d20"
    ELSE IF influence > 250 THEN "d12"
    ELSE IF influence > 200 THEN "d10"
    ELSE IF influence > 150 THEN "d8"
    ELSE IF influence > 100 THEN "d6"
    ELSE IF influence > 50 THEN "d4"
    ELSE "null"

getInfluenceDie(influence) ==
    IF influence >= 300 THEN "d20"
    ELSE IF influence >= 250 THEN "d12"
    ELSE IF influence >= 200 THEN "d10"
    ELSE IF influence >= 150 THEN "d8"
    ELSE IF influence >= 100 THEN "d6"
    ELSE IF influence >= 50 THEN "d4"
    ELSE "null"

\* addLogEntry that puts the entry first (unshift)
addLogEntry_front(gs, text) ==
    [gs EXCEPT !.turnLog = <<[turn |-> gs.currentTurn, text |-> text]>> \o @]

\* addLogEntry(text) on game record gs
addLogEntry(gs, text) ==
    [gs EXCEPT !.turnLog = Append(@, [turn |-> gs.currentTurn, text |-> text])]

----------------------------------------------------------------------------
(* app.js: the recruitment pipeline as pure steps on a game record *)

suitSymbol(suit) ==
    CASE suit = "hearts" -> "H" [] suit = "diamonds" -> "D"
      [] suit = "clubs" -> "C" [] suit = "spades" -> "S" [] OTHER -> ""

\* the test of attemptRecruit that refuses the attempt
noRecruiter(gs) == Len(gs.operatives) = 0 /\ gs.leaderSkillLevel = 0

refusedText == [msg |-> "No operatives available to attempt recruitment."]

\* total = baseRoll (+ bonusRoll) + leaderSkillLevel; rolls is the sequence of
\* [die, roll] of the dice rolled
recruitTotal(gs, rolls) ==
    LET dice == IF Len(rolls) = 2 THEN rolls[1].roll + rolls[2].roll ELSE rolls[1].roll
    IN dice + gs.leaderSkillLevel

recruitSuccess(gs, card, rolls) == recruitTotal(gs, rolls) >= card.value

recruitText(gs, card, rolls) ==
    [msg |-> IF recruitSuccess(gs, card, rolls) THEN "Recruit success!" ELSE "Recruit failed.",
     rank |-> card.rank, suit |-> suitSymbol(card.suit), rollBreakdown |-> rolls,
     leader |-> gs.leaderSkillLevel, total |-> recruitTotal(gs, rolls),
     target |-> card.value]

\* an attempt that charges one supply for its roll
recruitResolve_spends(gs, poolIndex, card, rolls) ==
    addLogEntry([gs EXCEPT !.supplies = @ - 1], recruitText(gs, card, rolls))

\* the tail of attemptRecruit, after the last roll resolved
recruitResolve(gs, poolIndex, card, rolls) ==
    IF recruitSuccess(gs, card, rolls)
    THEN addLogEntry(
           [gs EXCEPT !.recruitPool = SpliceRest(@, poolIndex, 1),
                      !.initiates = Append(@, [card |-> card, turnsRemaining |-> 2])],
           recruitText(gs, card, rolls))
    ELSE addLogEntry(gs, recruitText(gs, card, rolls))

drawText(card) ==
    [msg |-> "Drew to recruit pool.", rank |-> card.rank,
     suit |-> suitSymbol(card.suit), value |-> card.value]

RECURSIVE logDrawn(_, _)
\* for (const card of drawn) addLogEntry(...)
logDrawn(gs, drawn) ==
    IF drawn = <<>> THEN gs
    ELSE logDrawn(addLogEntry(gs, drawText(Head(drawn))), Tail(drawn))

\* the tail of drawToPool, after Deck.draw resolved with drawn
poolPush(gs, drawn) ==
    logDrawn([gs EXCEPT !.recruitPool = @ \o drawn], drawn)

\* updateLeaderSkill
RECURSIVE maxValue(_)
\* the value of the first card in place of the maximum
maxValue_first(cards) == cards[1].value

maxValue(cards) ==
    IF Len(cards) = 1 THEN cards[1].value
    ELSE Max(cards[1].value, maxValue(Tail(cards)))

updateLeaderSkill(gs) ==
    IF Len(gs.operatives) = 0 THEN [gs EXCEPT !.leaderSkillLevel = 0]
    ELSE [gs EXCEPT !.leaderSkillLevel = maxValue(gs.operatives)]

----------------------------------------------------------------------------
(* Suspended async calls, promise reactions and modals *)

Idle == [op |-> "idle"]

TaskIds == 1..MaxTasks

FreeIds == {id \in TaskIds : tasks[id] = Idle}

NewId == CHOOSE id \in FreeIds : \A other \in FreeIds : id <= other

\* a Dice.roll that calls its provider and rolls digitally as well
DiceRoll_both(id, dieType, mq) ==
    /\ diceProvider # "null"
    /\ overlays' = Append(overlays,
            [kind |-> "dice", task |-> id, dieType |-> dieType, max |-> getDieMax(dieType)])
    /\ \E v \in digitalRoll(dieType) :
            microtasks' = Append(mq, [task |-> id, request |-> dieType, value |-> v])

\* Dice.roll(dieType) for call id, reactions queued so far mq: with a provider
\* UI.diceInput opens its modal, without one digitalRoll settles the promise
DiceRoll(id, dieType, mq) ==
    IF diceProvider # "null"
    THEN /\ overlays' = Append(overlays,
                [kind |-> "dice", task |-> id, dieType |-> dieType, max |-> getDieMax(dieType)])
         /\ microtasks' = mq
    ELSE /\ \E v \in digitalRoll(dieType) :
                microtasks' = Append(mq, [task |-> id, request |-> dieType, value |-> v])
         /\ overlays' = overlays

\* pickOneCard(current, total) for call id
pickOneCard(id, current, total) ==
    [kind |-> "card", task |-> id, current |-> current, total |-> total]

\* document.querySelectorAll('.modal-overlay') of one kind, as DOM positions
Modals(kind) == {k \in 1..Len(overlays) : overlays[k].kind = kind}

RemoveAt(s, k) == SubSeq(s, 1, k - 1) \o SubSeq(s, k + 1, Len(s))

----------------------------------------------------------------------------
(* Inputs of the environment *)

\* Games left in localStorage by an earlier session: pool cards taken from the
\* front of a shuffled deck, ops operatives after them, the leader's skill as
\* updateLeaderSkill leaves it
SavedGame(sc) ==
    LET deck == ShuffledDeck[sc.seed]
    IN updateLeaderSkill(
         [createInitial EXCEPT
            !.inputMode = [dice |-> sc.dice, cards |-> sc.cards],
            !.influence = sc.influence,
            !.supplies = sc.supplies,
            !.recruitPool = SubSeq(deck, 1, sc.pool),
            !.operatives = SubSeq(deck, sc.pool + 1, sc.pool + sc.ops),
            !.recruitDeck = SubSeq(deck, sc.pool + sc.ops + 1, Len(deck))])

Scenarios ==
    { [seed |-> 0, pool |-> 2, ops |-> 1, influence |-> 0, supplies |-> 0,
        dice |-> "digital", cards |-> "digital"],
      [seed |-> 1, pool |-> 2, ops |-> 1, influence |-> 50, supplies |-> 3,
        dice |-> "physical", cards |-> "digital"],
      [seed |-> 0, pool |-> 1, ops |-> 50, influence |-> 0, supplies |-> 0,
        dice |-> "digital", cards |-> "digital"],
      [seed |-> 1, pool |-> 1, ops |-> 1, influence |-> 0, supplies |-> 0,
        dice |-> "digital", cards |-> "physical"],
      [seed |-> 1, pool |-> 1, ops |-> 1, influence |-> 300, supplies |-> 1,
        dice |-> "digital", cards |-> "digital"] }

SavedGames == [sc \in Scenarios |-> SavedGame(sc)]

SavedItems == {NoItem} \cup {JSONstringify(SavedGames[sc]) : sc \in Scenarios}

\* what parseInt(input.value, 10) can give for a die of the given maximum
DiceEntries(max) ==
    {[nan |-> TRUE, n |-> 0]}
    \cup {[nan |-> FALSE, n |-> v] :
            v \in IF max = undefined THEN {0, 1, 101} ELSE Faces(max) \cup {0, max + 1}}

\* the (suit, rank) selections a player makes in the card picker
CardEntries == {createDeck[1 + 7 * k] : k \in 0..(NumPicks - 1)}

Counts == 0..MaxCount

----------------------------------------------------------------------------
(* Initial state: the page is loaded and App.init has shown the title screen *)

Init ==
    /\ gameState = Null
    /\ activeScreen = "title"
    /\ screenActive = [s \in ScreenNames |-> s = "title"]
    /\ diceProvider = "null"
    /\ deckProvider = "null"
    /\ localStorage \in [StorageKeys -> SavedItems]
    /\ tasks = [id \in TaskIds |-> Idle]
    /\ microtasks = <<>>
    /\ overlays = <<>>

----------------------------------------------------------------------------
(* app.js: operations *)

\* no call of drawToPool or attemptRecruit is suspended: the screens offer
\* Begin and Continue only before a game is on the game screen
Quiet == \A id \in TaskIds : tasks[id] = Idle

\* a beginGame that starts from the game in memory when there is one
beginGame_reuses ==
    /\ Quiet
    /\ \E dice \in InputModes, cards \in InputModes, seed \in Seeds :
        LET state == [(IF gameState = Null THEN createInitial ELSE gameState) EXCEPT
                        !.inputMode = [dice |-> dice, cards |-> cards],
                        !.recruitDeck = ShuffledDeck[seed],
                        !.influence = 0, !.heat = 0, !.supplies = 0,
                        !.currentTurn = 1]
        IN /\ gameState' = state
           /\ diceProvider' = syncDice(state)
           /\ deckProvider' = syncCards(state)
           /\ localStorage' = save(localStorage, state, "current")
           /\ showScreen("game")
           /\ UNCHANGED <<tasks, microtasks, overlays>>

beginGame ==
    /\ Quiet
    /\ \E dice \in InputModes, cards \in InputModes, seed \in Seeds :
        LET state == [createInitial EXCEPT
                        !.inputMode = [dice |-> dice, cards |-> cards],
                        !.recruitDeck = ShuffledDeck[seed],
                        !.influence = 0, !.heat = 0, !.supplies = 0,
                        !.currentTurn = 1]
        IN /\ gameState' = state
           /\ diceProvider' = syncDice(state)
           /\ deckProvider' = syncCards(state)
           /\ localStorage' = save(localStorage, state, "current")
           /\ showScreen("game")
           /\ UNCHANGED <<tasks, microtasks, overlays>>

\* continueGame without its test of a missing save
continueGame_noCheck ==
    /\ Quiet
    /\ gameState' = load(localStorage, "current")
    /\ showScreen("game")
    /\ UNCHANGED <<diceProvider, deckProvider, localStorage, tasks, microtasks, overlays>>

continueGame ==
    LET state == load(localStorage, "current")
    IN IF state = Null THEN UNCHANGED vars
       ELSE /\ Quiet
            /\ gameState' = state
            /\ diceProvider' = syncDice(state)
            /\ deckProvider' = syncCards(state)
            /\ showScreen("game")
            /\ UNCHANGED <<localStorage, tasks, microtasks, overlays>>

\* turnLog entries a suspended call is still to add: one per card asked of
\* drawToPool, one for an attempt
Pending(t) ==
    IF t.op = "drawToPool" THEN t.count
    ELSE IF t.op = "attemptRecruit" THEN 1
    ELSE 0

RECURSIVE PendingOf(_)
PendingOf(ids) ==
    IF ids = {} THEN 0
    ELSE LET id == CHOOSE x \in ids : TRUE
         IN Pending(tasks[id]) + PendingOf(ids \ {id})

Busy == PendingOf(TaskIds)

\* the log has room for n more entries after those the suspended calls add
LogRoom(n) == Len(gameState.turnLog) + Busy + n <= MaxLog

\* a call adding n entries may be started and suspended
MayStart(n) == FreeIds # {} /\ LogRoom(n)

\* drawToPool with a cardInput that does not await pickOneCard: every prompt
\* is opened at once
drawToPool_noAwait(count) ==
    /\ gameState # Null
    /\ MayStart(count)
    /\ deckProvider # "null"
    /\ 0 < count
    /\ overlays' = overlays \o [c \in 1..count |-> pickOneCard(NewId, c, count)]
    /\ tasks' = [tasks EXCEPT ![NewId] =
            [op |-> "drawToPool", pc |-> "cardInput", count |-> count,
             cards |-> <<>>, i |-> 0]]
    /\ UNCHANGED <<gameState, microtasks, activeScreen, screenActive, diceProvider,
                   deckProvider, localStorage>>

\* drawToPool whose Deck.draw splices the deck before it hands over to the
\* provider
drawToPool_relaySplices(count) ==
    /\ gameState # Null
    /\ MayStart(count)
    /\ deckProvider # "null"
    /\ 0 < count
    /\ gameState' = [gameState EXCEPT !.recruitDeck = digitalRest(@, count)]
    /\ overlays' = Append(overlays, pickOneCard(NewId, 1, count))
    /\ tasks' = [tasks EXCEPT ![NewId] =
            [op |-> "drawToPool", pc |-> "cardInput", count |-> count,
             cards |-> <<>>, i |-> 0]]
    /\ UNCHANGED <<microtasks, activeScreen, screenActive, diceProvider, deckProvider,
                   localStorage>>

\* drawToPool(count) up to its await: Deck.draw either splices the deck
\* (digitalDraw) or hands over to the provider UI.cardInput
drawToPool(count) ==
    IF gameState = Null THEN UNCHANGED vars
    ELSE /\ MayStart(count)
         /\ IF deckProvider = "null"
            THEN /\ gameState' = [gameState EXCEPT !.recruitDeck = digitalRest(@, count)]
                 /\ microtasks' = Append(microtasks,
                        [task |-> NewId, request |-> "draw",
                         cards |-> digitalDrawn(gameState.recruitDeck, count)])
                 /\ tasks' = [tasks EXCEPT ![NewId] =
                        [op |-> "drawToPool", pc |-> "draw", count |-> count]]
                 /\ overlays' = overlays
            ELSE /\ gameState' = gameState
                 /\ IF 0 < count
                    THEN /\ overlays' = Append(overlays, pickOneCard(NewId, 1, count))
                         /\ microtasks' = microtasks
                         /\ tasks' = [tasks EXCEPT ![NewId] =
                                [op |-> "drawToPool", pc |-> "cardInput", count |-> count,
                                 cards |-> <<>>, i |-> 0]]
                    ELSE /\ overlays' = overlays
                         /\ microtasks' = Append(microtasks,
                                [task |-> NewId, request |-> "draw", cards |-> <<>>])
                         /\ tasks' = [tasks EXCEPT ![NewId] =
                                [op |-> "drawToPool", pc |-> "draw", count |-> count]]
         /\ UNCHANGED <<activeScreen, screenActive, diceProvider, deckProvider, localStorage>>

\* UI.cardInput resumed with the card of pickOneCard: push it, then either the
\* next pickOneCard or return cards
cardInputNext ==
    /\ microtasks # <<>>
    /\ LET m == Head(microtasks)
           t == tasks[m.task]
       IN /\ t.op = "drawToPool" /\ t.pc = "cardInput"
          /\ LET cards == Append(t.cards, m.card)
                 i == t.i + 1
             IN IF i < t.count
                THEN /\ overlays' = Append(overlays, pickOneCard(m.task, i + 1, t.count))
                     /\ microtasks' = Tail(microtasks)
                     /\ tasks' = [tasks EXCEPT ![m.task] = [t EXCEPT !.cards = cards, !.i = i]]
                ELSE /\ overlays' = overlays
                     /\ microtasks' = Append(Tail(microtasks),
                            [task |-> m.task, request |-> "draw", cards |-> cards])
                     /\ tasks' = [tasks EXCEPT ![m.task] =
                            [op |-> "drawToPool", pc |-> "draw", count |-> t.count]]
    /\ UNCHANGED <<gameState, activeScreen, screenActive, diceProvider, deckProvider,
                   localStorage>>

\* drawToPool resumed with the drawn cards: push to the pool, log, save
drawToPoolResume ==
    /\ microtasks # <<>>
    /\ LET m == Head(microtasks)
           t == tasks[m.task]
       IN /\ t.op = "drawToPool" /\ t.pc = "draw"
          /\ gameState' = poolPush(gameState, m.cards)
          /\ localStorage' = save(localStorage, gameState', "current")
          /\ tasks' = [tasks EXCEPT ![m.task] = Idle]
          /\ microtasks' = Tail(microtasks)
    /\ UNCHANGED <<activeScreen, screenActive, diceProvider, deckProvider, overlays>>

\* attemptRecruit whose refusal lacks its return: the entry is logged and the
\* base die is rolled all the same
attemptRecruit_noReturn(poolIndex) ==
    /\ gameState # Null
    /\ poolIndex < Len(gameState.recruitPool)
    /\ MayStart(1)
    /\ gameState' = IF noRecruiter(gameState) THEN addLogEntry(gameState, refusedText)
                    ELSE gameState
    /\ tasks' = [tasks EXCEPT ![NewId] =
            [op |-> "attemptRecruit", pc |-> "base", poolIndex |-> poolIndex,
             card |-> gameState.recruitPool[poolIndex + 1]]]
    /\ DiceRoll(NewId, "d10", microtasks)
    /\ UNCHANGED <<activeScreen, screenActive, diceProvider, deckProvider, localStorage>>

\* attemptRecruit(poolIndex) up to its first await
attemptRecruit(poolIndex) ==
    IF gameState = Null THEN UNCHANGED vars
    ELSE IF poolIndex >= Len(gameState.recruitPool) THEN UNCHANGED vars
    ELSE /\ LogRoom(1)
         /\ IF noRecruiter(gameState)
            THEN /\ gameState' = addLogEntry(gameState, refusedText)
                 /\ UNCHANGED <<tasks, microtasks, overlays>>
            ELSE /\ FreeIds # {}
                 /\ gameState' = gameState
                 /\ tasks' = [tasks EXCEPT ![NewId] =
                        [op |-> "attemptRecruit", pc |-> "base", poolIndex |-> poolIndex,
                         card |-> gameState.recruitPool[poolIndex + 1]]]
                 /\ DiceRoll(NewId, "d10", microtasks)
         /\ UNCHANGED <<activeScreen, screenActive, diceProvider, deckProvider, localStorage>>

\* the end of attemptRecruit for suspended call id with the dice rolled
recruitFinish(id, rolls) ==
    /\ gameState' = recruitResolve(gameState, tasks[id].poolIndex, tasks[id].card, rolls)
    /\ localStorage' = save(localStorage, gameState', "current")
    /\ tasks' = [tasks EXCEPT ![id] = Idle]

\* attemptRecruit resumed with the base roll: the bonus die is requested, or
\* the attempt is resolved
attemptRecruitBase ==
    /\ microtasks # <<>>
    /\ LET m == Head(microtasks)
           t == tasks[m.task]
           bonusDie == getInfluenceDie(gameState.influence)
       IN /\ t.op = "attemptRecruit" /\ t.pc = "base"
          /\ IF bonusDie # "null"
             THEN /\ tasks' = [tasks EXCEPT ![m.task] =
                        [t EXCEPT !.pc = "bonus"] @@ [baseRoll |-> m.value, bonusDie |-> bonusDie]]
                  /\ DiceRoll(m.task, bonusDie, Tail(microtasks))
                  /\ UNCHANGED <<gameState, localStorage>>
             ELSE /\ recruitFinish(m.task, <<[die |-> "d10", roll |-> m.value]>>)
                  /\ microtasks' = Tail(microtasks)
                  /\ overlays' = overlays
    /\ UNCHANGED <<activeScreen, screenActive, diceProvider, deckProvider>>

\* attemptRecruit resumed with the bonus roll
attemptRecruitBonus ==
    /\ microtasks # <<>>
    /\ LET m == Head(microtasks)
           t == tasks[m.task]
       IN /\ t.op = "attemptRecruit" /\ t.pc = "bonus"
          /\ recruitFinish(m.task, <<[die |-> "d10", roll |-> t.baseRoll],
                                     [die |-> t.bonusDie, roll |-> m.value]>>)
          /\ microtasks' = Tail(microtasks)
    /\ UNCHANGED <<activeScreen, screenActive, diceProvider, deckProvider, overlays>>

----------------------------------------------------------------------------
(* ui.js: the Submit buttons of the modals *)

\* a click handler that checks the entry against 1 only
diceSubmit_noMax(k, entry) ==
    /\ overlays[k].kind = "dice"
    /\ IF entry.nan \/ entry.n < 1
       THEN UNCHANGED vars
       ELSE /\ overlays' = RemoveAt(overlays, k)
            /\ microtasks' = Append(microtasks,
                    [task |-> overlays[k].task, request |-> overlays[k].dieType,
                     value |-> entry.n])
            /\ UNCHANGED <<gameState, activeScreen, screenActive, diceProvider, deckProvider,
                           localStorage, tasks>>

\* the click handler of a diceInput modal, the input holding entry
diceSubmit(k, entry) ==
    /\ overlays[k].kind = "dice"
    /\ IF entry.nan \/ entry.n < 1 \/ GreaterThan(entry.n, overlays[k].max)
       THEN UNCHANGED vars
       ELSE /\ overlays' = RemoveAt(overlays, k)
            /\ microtasks' = Append(microtasks,
                    [task |-> overlays[k].task, request |-> overlays[k].dieType,
                     value |-> entry.n])
            /\ UNCHANGED <<gameState, activeScreen, screenActive, diceProvider, deckProvider,
                           localStorage, tasks>>

\* a Submit that closes the modal and resolves nothing
cardSubmit_drops(k, suit, rank) ==
    /\ overlays[k].kind = "card"
    /\ overlays' = RemoveAt(overlays, k)
    /\ UNCHANGED <<gameState, activeScreen, screenActive, diceProvider, deckProvider,
                   localStorage, tasks, microtasks>>

\* the click handler of a pickOneCard modal with the selected suit and rank
cardSubmit(k, suit, rank) ==
    /\ overlays[k].kind = "card"
    /\ overlays' = RemoveAt(overlays, k)
    /\ microtasks' = Append(microtasks,
            [task |-> overlays[k].task, request |-> "pickOneCard",
             card |-> [suit |-> suit, rank |-> rank, value |-> cardValue(rank)]])
    /\ UNCHANGED <<gameState, activeScreen, screenActive, diceProvider, deckProvider,
                   localStorage, tasks>>

----------------------------------------------------------------------------
(* The program *)

Next ==
    \/ beginGame
    \/ continueGame
    \/ \E count \in Counts : drawToPool(count)
    \/ cardInputNext
    \/ drawToPoolResume
    \/ \E poolIndex \in 0..MaxCount : attemptRecruit(poolIndex)
    \/ attemptRecruitBase
    \/ attemptRecruitBonus
    \/ \E k \in Modals("dice") : \E entry \in DiceEntries(overlays[k].max) :
            diceSubmit(k, entry)
    \/ \E k \in Modals("card") : \E c \in CardEntries : cardSubmit(k, c.suit, c.rank)

Spec == Init /\ [][Next]_vars

----------------------------------------------------------------------------
(* state.js driven on its own: the resource setters on a created state *)

\* values and deltas handed to the setters
InfluenceInputs == {-100, -50, -30, 50, 250, 999}

HeatInputs == {-60, -10, 30, 55, 80, 200}

SuppliesInputs == {-100, -5, -3, 10}

ClampInit ==
    /\ gameState = createInitial
    /\ activeScreen = "title"
    /\ screenActive = [s \in ScreenNames |-> s = "title"]
    /\ diceProvider = "null"
    /\ deckProvider = "null"
    /\ localStorage = [k \in StorageKeys |-> NoItem]
    /\ tasks = [id \in TaskIds |-> Idle]
    /\ microtasks = <<>>
    /\ overlays = <<>>

NotGameState == <<activeScreen, screenActive, diceProvider, deckProvider, localStorage,
                  tasks, microtasks, overlays>>

DoSetInfluence(x) == gameState' = setInfluence(gameState, x) /\ UNCHANGED NotGameState

DoSetHeat(x) == gameState' = setHeat(gameState, x) /\ UNCHANGED NotGameState

DoSetSupplies(x) == gameState' = setSupplies(gameState, x) /\ UNCHANGED NotGameState

DoAddInfluence(d) == gameState' = addInfluence(gameState, d) /\ UNCHANGED NotGameState

DoAddHeat(d) == gameState' = addHeat(gameState, d) /\ UNCHANGED NotGameState

DoAddSupplies(d) ==
    /\ gameState.supplies + d <= MaxSupplies
    /\ gameState' = addSupplies(gameState, d)
    /\ UNCHANGED NotGameState

ClampNext ==
    \/ \E x \in InfluenceInputs : DoSetInfluence(x)
    \/ \E x \in HeatInputs : DoSetHeat(x)
    \/ \E x \in SuppliesInputs : DoSetSupplies(x)
    \/ \E d \in InfluenceInputs : DoAddInfluence(d)
    \/ \E d \in HeatInputs : DoAddHeat(d)
    \/ \E d \in SuppliesInputs : DoAddSupplies(d)

ClampSpec == ClampInit /\ [][ClampNext]_vars

----------------------------------------------------------------------------
(* deck.js driven on its own with the automatic provider: draw and        *)
(* returnCards on a deck array, the callers holding the cards they drew    *)

DeckInit ==
    /\ gameState \in {[createInitial EXCEPT !.recruitDeck = SubSeq(createDeck, 1, n)] :
                        n \in 0..DeckSize}
    /\ activeScreen = "title"
    /\ screenActive = [s \in ScreenNames |-> s = "title"]
    /\ diceProvider = "null"
    /\ deckProvider = "null"
    /\ localStorage = [k \in StorageKeys |-> NoItem]
    /\ tasks = [id \in TaskIds |-> Idle]
    /\ microtasks = <<>>
    /\ overlays = <<>>

NotDeck == <<activeScreen, screenActive, diceProvider, deckProvider, localStorage,
             microtasks, overlays>>

\* const drawn = await Deck.draw(deck, count), no provider installed
DeckDraw(count) ==
    /\ FreeIds # {}
    /\ gameState' = [gameState EXCEPT !.recruitDeck = digitalRest(@, count)]
    /\ tasks' = [tasks EXCEPT ![NewId] =
            [op |-> "Deck.draw", pc |-> "drawn", count |-> count,
             cards |-> digitalDrawn(gameState.recruitDeck, count)]]
    /\ UNCHANGED NotDeck

\* Deck.returnCards(deck, drawn) by the caller id holding drawn
DeckReturn(id, seed) ==
    /\ tasks[id] # Idle
    /\ gameState' = [gameState EXCEPT !.recruitDeck = returnCards(@, tasks[id].cards, seed)]
    /\ tasks' = [tasks EXCEPT ![id] = Idle]
    /\ UNCHANGED NotDeck

DeckNext ==
    \/ \E count \in Counts : DeckDraw(count)
    \/ \E id \in TaskIds, seed \in DOMAIN ShuffledDeck : DeckReturn(id, seed)

DeckSpec == DeckInit /\ [][DeckNext]_vars

----------------------------------------------------------------------------
(* dice.js driven on its own: Dice.roll called with any die type, with the *)
(* automatic generator or the UI.diceInput relay installed                  *)

DiceInit ==
    /\ gameState = Null
    /\ activeScreen = "title"
    /\ screenActive = [s \in ScreenNames |-> s = "title"]
    /\ diceProvider \in {"null", "UI.diceInput"}
    /\ deckProvider = "null"
    /\ localStorage = [k \in StorageKeys |-> NoItem]
    /\ tasks = [id \in TaskIds |-> Idle]
    /\ microtasks = <<>>
    /\ overlays = <<>>

NotDice == <<gameState, activeScreen, screenActive, deckProvider, localStorage>>

\* Dice.setProvider(fn)
DiceSetProvider(fn) ==
    /\ diceProvider' = fn
    /\ UNCHANGED <<tasks, microtasks, overlays>>
    /\ UNCHANGED NotDice

\* const result = await Dice.roll(dieType): with a provider its promise is
\* awaited; without one digitalRoll throws for a die DIE_MAX lacks, and the
\* promise of roll is rejected
DiceCall(dieType) ==
    /\ FreeIds # {}
    /\ IF diceProvider = "null" /\ digitalThrows(dieType)
       THEN /\ tasks' = [tasks EXCEPT ![NewId] =
                    [op |-> "Dice.roll", pc |-> "rejected", dieType |-> dieType]]
            /\ UNCHANGED <<microtasks, overlays>>
       ELSE /\ tasks' = [tasks EXCEPT ![NewId] =
                    [op |-> "Dice.roll", pc |-> "pending", dieType |-> dieType]]
            /\ DiceRoll(NewId, dieType, microtasks)
    /\ UNCHANGED diceProvider
    /\ UNCHANGED NotDice

\* the promise of roll is resolved with the value its provider or digitalRoll
\* supplied
DiceSettle ==
    /\ microtasks # <<>>
    /\ LET m == Head(microtasks)
       IN /\ tasks[m.task].op = "Dice.roll"
          /\ tasks' = [tasks EXCEPT ![m.task] =
                [op |-> "Dice.roll", pc |-> "resolved", dieType |-> m.request,
                 value |-> m.value]]
    /\ microtasks' = Tail(microtasks)
    /\ UNCHANGED <<diceProvider, overlays>>
    /\ UNCHANGED NotDice

\* the caller takes the result or the error and goes on
DiceDone(id) ==
    /\ tasks[id] # Idle
    /\ tasks[id].pc \in {"resolved", "rejected"}
    /\ tasks' = [tasks EXCEPT ![id] = Idle]
    /\ UNCHANGED <<diceProvider, microtasks, overlays>>
    /\ UNCHANGED NotDice

DiceNext ==
    \/ \E fn \in {"null", "UI.diceInput"} : DiceSetProvider(fn)
    \/ \E dieType \in DieInputs : DiceCall(dieType)
    \/ DiceSettle
    \/ \E id \in TaskIds : DiceDone(id)
    \/ \E k \in Modals("dice") : \E entry \in DiceEntries(overlays[k].max) :
            diceSubmit(k, entry)

DiceSpec == DiceInit /\ [][DiceNext]_vars

----------------------------------------------------------------------------
(* Vocabulary of the properties *)

\* call id, a suspended call of op, ends in this step
Completed(id, op) == tasks[id].op = op /\ tasks'[id] = Idle

\* call id of op is started and suspended in this step
Started(id, op) == tasks[id] = Idle /\ tasks'[id] # Idle /\ tasks'[id].op = op

\* the sum of the dice rolled by attemptRecruit call id, its last roll being
\* the value its promise is about to resolve with
DiceSum(id) ==
    IF tasks[id].pc = "bonus" THEN tasks[id].baseRoll + Head(microtasks).value
    ELSE Head(microtasks).value

CardsOf(entries) == [k \in 1..Len(entries) |-> entries[k].card]

\* the cards in play: pool, initiates, operatives, detained
InPlay(gs) ==
    gs.recruitPool \o CardsOf(gs.initiates) \o gs.operatives \o CardsOf(gs.detainedOperatives)

\* no (suit, rank) twice in a sequence of cards
NoDuplicate(cards) ==
    \A a, b \in 1..Len(cards) :
        (cards[a].suit = cards[b].suit /\ cards[a].rank = cards[b].rank) => a = b

\* requests of call id not yet answered (open modals) or answered and not yet
\* handed to the call (queued reactions)
Outstanding(id) ==
    Cardinality({k \in 1..Len(overlays) : overlays[k].task = id})
    + Cardinality({k \in 1..Len(microtasks) : microtasks[k].task = id})

\* each call has at most one request outstanding, and what is outstanding
\* is the request its progress calls for
OneRequestAtATime ==
    \A id \in TaskIds :
        /\ Outstanding(id) <= 1
        /\ \A k \in 1..Len(overlays) :
              (overlays[k].task = id /\ overlays[k].kind = "dice"
                 /\ overlays[k].dieType # "d10") => tasks[id].pc = "bonus"
        /\ \A k \in 1..Len(microtasks) :
              (microtasks[k].task = id /\ microtasks[k].request \in DieTypes \ {"d10"})
                 => tasks[id].pc = "bonus"
        /\ (tasks[id] # Idle /\ tasks[id].pc = "bonus") =>
              tasks[id].baseRoll \in 1..getDieMax("d10")
        /\ \A k \in 1..Len(overlays) :
              (overlays[k].task = id /\ overlays[k].kind = "card") =>
                  /\ Len(tasks[id].cards) = overlays[k].current - 1
                  /\ overlays[k].total = tasks[id].count
        /\ \A k \in 1..Len(microtasks) :
              (microtasks[k].task = id /\ microtasks[k].request = "draw"
                 /\ deckProvider = "UI.cardInput") =>
                  Len(microtasks[k].cards) = Max(0, tasks[id].count)

----------------------------------------------------------------------------
(* Properties *)

\* C1: card conservation. Whenever a game exists and no call is suspended, the
\* recruit deck, the pool, the initiates, the operatives and the detained
\* operatives hold 52 cards in all, with digital or physical card input.
C1_CardConservation ==
    (gameState # Null /\ Quiet) =>
        Len(gameState.recruitDeck) + Len(gameState.recruitPool) + Len(gameState.initiates)
        + Len(gameState.operatives) + Len(gameState.detainedOperatives) = 52

\* C2: a recruit attempt succeeds (the card becomes an initiate) if and only if
\* the sum of the dice rolled is at least the card's value; the leader's skill
\* is not part of the total, and on a failure the card stays in the pool.
C2_DiceAloneDecide ==
    [][\A id \in TaskIds :
          Completed(id, "attemptRecruit") =>
              /\ (Len(gameState'.initiates) = Len(gameState.initiates) + 1)
                    <=> (DiceSum(id) >= tasks[id].card.value)
              /\ (DiceSum(id) < tasks[id].card.value)
                    => gameState'.recruitPool = gameState.recruitPool]_vars

\* C3: the leader may always attempt recruitment: no attempt on an existing
\* pool card is ever refused, so the log never records a refusal.
C3_LeaderNeverRefused ==
    gameState # Null =>
        \A k \in 1..Len(gameState.turnLog) : gameState.turnLog[k].text # refusedText

\* C4: a completed attemptRecruit(i) on pool card c either removes c, and only
\* c, from the pool and appends [card c, turnsRemaining 2] to the initiates, or
\* leaves pool and initiates unchanged; deck, operatives and detained
\* operatives are unchanged in both cases.
C4_RecruitMovesTheCard ==
    [][\A id \in TaskIds :
          Completed(id, "attemptRecruit") =>
              LET c == tasks[id].card
                  i == tasks[id].poolIndex + 1
              IN /\ \/ /\ i <= Len(gameState.recruitPool)
                       /\ gameState.recruitPool[i] = c
                       /\ gameState'.recruitPool = RemoveAt(gameState.recruitPool, i)
                       /\ gameState'.initiates =
                            Append(gameState.initiates, [card |-> c, turnsRemaining |-> 2])
                    \/ /\ gameState'.recruitPool = gameState.recruitPool
                       /\ gameState'.initiates = gameState.initiates
                 /\ gameState'.recruitDeck = gameState.recruitDeck
                 /\ gameState'.operatives = gameState.operatives
                 /\ gameState'.detainedOperatives = gameState.detainedOperatives]_vars

\* C5: a refused recruit attempt records its log entry and nothing else: pool,
\* initiates, resources and deck keep their values, and no die roll is
\* requested (no call is suspended, no modal opened, no reaction queued).
C5_RefusalOnlyLogs ==
    [][(/\ gameState # Null
        /\ gameState' # Null
        /\ gameState'.turnLog =
              Append(gameState.turnLog, [turn |-> gameState.currentTurn, text |-> refusedText]))
       => /\ gameState' = [gameState EXCEPT !.turnLog = gameState'.turnLog]
          /\ gameState'.recruitPool = gameState.recruitPool
          /\ gameState'.initiates = gameState.initiates
          /\ gameState'.recruitDeck = gameState.recruitDeck
          /\ gameState'.influence = gameState.influence
          /\ gameState'.heat = gameState.heat
          /\ gameState'.supplies = gameState.supplies
          /\ UNCHANGED <<tasks, microtasks, overlays>>]_vars

\* C5 witness: a refusal has been logged
C5_Refused ==
    /\ gameState # Null
    /\ \E k \in 1..Len(gameState.turnLog) : gameState.turnLog[k].text = refusedText

\* C6: while a call of attemptRecruit or drawToPool is suspended on a provider
\* request, no other call is started: at most one call is suspended at a time.
C6_OneCallAtATime == Cardinality({id \in TaskIds : tasks[id] # Idle}) <= 1

\* C7: the requests of one call are strictly sequential: a call has at most
\* one request outstanding; a die other than the base d10 is requested only by
\* a call that has its base roll; the prompt for card k is open only when k-1
\* cards were submitted; cardInput(n) resolves with exactly n cards, in the
\* order entered.
C7_Sequential ==
    [][/\ OneRequestAtATime'
       /\ \A id \in TaskIds :
            (/\ microtasks # <<>>
             /\ Head(microtasks).task = id
             /\ Head(microtasks).request = "pickOneCard"
             /\ tasks'[id] # tasks[id])
            => LET entered == Append(tasks[id].cards, Head(microtasks).card)
               IN IF tasks'[id].pc = "cardInput" THEN tasks'[id].cards = entered
                  ELSE /\ Len(entered) = tasks[id].count
                       /\ microtasks'[Len(microtasks')].cards = entered]_vars

\* C7 witness: the prompt for card 2 of 2 is open after card 1 was submitted
C7_SecondPrompt ==
    \E k \in 1..Len(overlays) :
        /\ overlays[k].kind = "card"
        /\ overlays[k].current = 2
        /\ Len(tasks[overlays[k].task].cards) = 1

\* C8: clamp on write. setInfluence(x) stores min(500, max(0, x)), setHeat(x)
\* min(100, max(0, x)), setSupplies(x) max(0, x); the add functions store the
\* clamp of old value + d; so influence stays in 0..500, heat in 0..100 and
\* supplies at or above 0.
C8_ClampOnWrite ==
    [][/\ \A x \in InfluenceInputs :
            /\ DoSetInfluence(x) => gameState'.influence = Min(500, Max(0, x))
            /\ DoAddInfluence(x) =>
                  gameState'.influence = Min(500, Max(0, gameState.influence + x))
       /\ \A x \in HeatInputs :
            /\ DoSetHeat(x) => gameState'.heat = Min(100, Max(0, x))
            /\ DoAddHeat(x) => gameState'.heat = Min(100, Max(0, gameState.heat + x))
       /\ \A x \in SuppliesInputs :
            /\ DoSetSupplies(x) => gameState'.supplies = (IF x < 0 THEN 0 ELSE x)
            /\ DoAddSupplies(x) =>
                  gameState'.supplies =
                      (IF gameState.supplies + x < 0 THEN 0 ELSE gameState.supplies + x)
       /\ gameState'.influence \in 0..500
       /\ gameState'.heat \in 0..100
       /\ gameState'.supplies >= 0]_vars

\* C8 witness: influence and heat sit at their upper clamps, supplies at a
\* value reached by deltas
C8_Clamped ==
    gameState.influence = 500 /\ gameState.heat = 100 /\ gameState.supplies = 7

\* C9: in digital mode drawToPool(count) takes k = min(count, |recruitDeck|)
\* cards from the front of the deck when called and, when resumed, appends
\* exactly those cards to the end of the pool, the pool's cards keeping their
\* place, with one log entry per card.
C9_DigitalDraw ==
    [][\A id \in TaskIds :
          /\ (Started(id, "drawToPool") /\ deckProvider = "null") =>
                LET k == Min(tasks'[id].count, Len(gameState.recruitDeck))
                    promised == microtasks'[Len(microtasks')]
                IN /\ promised.task = id
                   /\ promised.cards = SubSeq(gameState.recruitDeck, 1, k)
                   /\ gameState'.recruitDeck =
                        SubSeq(gameState.recruitDeck, k + 1, Len(gameState.recruitDeck))
                   /\ Len(gameState'.recruitDeck) = Len(gameState.recruitDeck) - k
                   /\ gameState'.recruitPool = gameState.recruitPool
          /\ (Completed(id, "drawToPool") /\ deckProvider = "null") =>
                LET drawn == Head(microtasks).cards
                    n == Len(gameState.turnLog)
                IN /\ gameState'.recruitPool = gameState.recruitPool \o drawn
                   /\ gameState'.recruitDeck = gameState.recruitDeck
                   /\ Len(gameState'.turnLog) = n + Len(drawn)
                   /\ SubSeq(gameState'.turnLog, 1, n) = gameState.turnLog
                   /\ \A j \in 1..Len(drawn) :
                        /\ gameState'.turnLog[n + j].text.rank = drawn[j].rank
                        /\ gameState'.turnLog[n + j].text.suit = suitSymbol(drawn[j].suit)]_vars

\* C9 witness: a draw of two from a deck of one has emptied the deck and put
\* that one card behind the card the pool already held
C9_ShortDeckDrawn ==
    /\ gameState # Null
    /\ Quiet
    /\ deckProvider = "null"
    /\ gameState.recruitDeck = <<>>
    /\ Len(gameState.recruitPool) = 2
    /\ Len(gameState.turnLog) = 1
    /\ gameState.turnLog[1].text.msg = "Drew to recruit pool."

\* C10: in physical card mode a drawToPool never adds a card whose (suit, rank)
\* is already in play: if no pair was in play twice before it completes, none
\* is afterwards.
C10_NoDuplicateEntered ==
    [][\A id \in TaskIds :
          (Completed(id, "drawToPool") /\ deckProvider = "UI.cardInput"
             /\ NoDuplicate(InPlay(gameState)))
          => NoDuplicate(InPlay(gameState'))]_vars

\* call id is a drawToPool call that takes a step
DrawStep(id) ==
    /\ tasks'[id] # tasks[id]
    /\ \/ (tasks[id] # Idle /\ tasks[id].op = "drawToPool")
       \/ (tasks'[id] # Idle /\ tasks'[id].op = "drawToPool")

\* C11: with a card provider installed, a draw leaves the backing deck as it
\* was (same cards, same order, same length) at every step of the call: when
\* the provider is asked, while cards are entered, and when the cards are
\* handed back, whatever cards were entered.
C11_RelayKeepsDeck ==
    [][(deckProvider # "null" /\ \E id \in TaskIds : DrawStep(id))
          => gameState'.recruitDeck = gameState.recruitDeck]_vars

\* C11 witness: a begun game in physical card mode has logged an entered card
\* and its deck still holds the 52 cards it was dealt
C11_RelayDrawn ==
    /\ gameState # Null
    /\ Quiet
    /\ deckProvider = "UI.cardInput"
    /\ Len(gameState.recruitPool) = 1
    /\ Len(gameState.turnLog) = 1
    /\ gameState.turnLog[1].text.msg = "Drew to recruit pool."
    /\ Len(gameState.recruitDeck) = 52

\* how often card c occurs in a sequence of cards
Count(cards, c) == Cardinality({k \in 1..Len(cards) : cards[k] = c})

\* two sequences hold the same cards as multisets
SameCards(a, b) == \A c \in Range(a) \cup Range(b) : Count(a, c) = Count(b, c)

\* the cards held by the callers of Deck.draw, in the order of the callers
RECURSIVE HeldFrom(_)
HeldFrom(id) ==
    IF id > MaxTasks THEN <<>>
    ELSE (IF tasks[id] = Idle THEN <<>> ELSE tasks[id].cards) \o HeldFrom(id + 1)

\* C12: with the automatic provider, Deck.draw(deck, n) returns the first
\* k = min(n, |deck|) cards of the deck in order and removes exactly those,
\* the rest keeping their order; a deck that is empty or too short gives fewer
\* cards (possibly none), and the draw is possible for every n on every deck.
C12_AutomaticDraw ==
    [][/\ \A id \in TaskIds :
            Started(id, "Deck.draw") =>
                LET deck == gameState.recruitDeck
                    k == IF tasks'[id].count < Len(deck) THEN tasks'[id].count ELSE Len(deck)
                    drawn == tasks'[id].cards
                IN /\ Len(drawn) = k
                   /\ \A j \in 1..k : drawn[j] = deck[j]
                   /\ Len(gameState'.recruitDeck) = Len(deck) - k
                   /\ \A j \in 1..(Len(deck) - k) : gameState'.recruitDeck[j] = deck[k + j]
                   /\ drawn \o gameState'.recruitDeck = deck
       /\ \A count \in Counts : FreeIds # {} => ENABLED DeckDraw(count)]_vars

\* C12 witness: a caller asked an empty deck for cards and holds none, the
\* other caller drew every card of the deck before
C12_EmptyDeckDrawn ==
    \E id, other \in TaskIds :
        /\ tasks[id] # Idle /\ tasks[other] # Idle
        /\ tasks[id].count >= 1 /\ tasks[id].cards = <<>>
        /\ tasks[other].count > Len(tasks[other].cards) /\ Len(tasks[other].cards) >= 1
        /\ gameState.recruitDeck = <<>>

\* a fresh deck with its first five cards taken off and returned, under
\* each random stream, holds the 52 cards of a fresh deck
FullDeckReturned ==
    \A seed \in DOMAIN ShuffledDeck :
        LET deck == returnCards(SubSeq(createDeck, 6, 52), SubSeq(createDeck, 1, 5), seed)
        IN Len(deck) = 52 /\ SameCards(deck, createDeck)

\* C13: Deck.returnCards(deck, cards) leaves the deck holding its previous
\* cards plus the returned ones as a multiset, nothing lost or duplicated, so
\* the deck and the cards still held are always the cards of the first deck:
\* once everything drawn is returned, the deck has its cards and length back.
C13_ReturnKeepsCards ==
    [][\A id \in TaskIds :
          (tasks[id] # Idle /\ tasks'[id] = Idle) =>
              LET deck == gameState.recruitDeck
                  cards == tasks[id].cards
              IN /\ SameCards(gameState'.recruitDeck, deck \o cards)
                 /\ Len(gameState'.recruitDeck) = Len(deck) + Len(cards)
                 /\ SameCards(gameState'.recruitDeck \o HeldFrom(1)',
                              gameState.recruitDeck \o HeldFrom(1))
                 /\ NoDuplicate(gameState'.recruitDeck)
                 /\ FullDeckReturned]_vars

\* C13 witness: every card drawn was returned, and the deck holds its
\* DeckSize cards in another order than it was created in
C13_ReturnedShuffled ==
    /\ Quiet
    /\ Len(gameState.recruitDeck) = DeckSize
    /\ gameState.recruitDeck # SubSeq(createDeck, 1, DeckSize)
    /\ SameCards(gameState.recruitDeck, SubSeq(createDeck, 1, DeckSize))

\* the value the rules give a rank: face value for 2-10, J 11, Q 12, K 13, A 15
RuleValue(rank) ==
    CASE rank = "J" -> 11 [] rank = "Q" -> 12 [] rank = "K" -> 13 [] rank = "A" -> 15
      [] OTHER -> CHOOSE n \in 2..10 : ToString(n) = rank

RuleSuits == {"hearts", "diamonds", "clubs", "spades"}

RuleRanks == {ToString(n) : n \in 2..10} \cup {"J", "Q", "K", "A"}

\* C14: createDeck returns 52 cards, exactly one for each of the 4 x 13
\* (suit, rank) pairs, 13 per suit, each card's value being its face value for
\* 2-10, 11 for J, 12 for Q, 13 for K and 15 for A, and cardValue(rank) gives
\* the same values; the deck a game is begun with holds exactly these cards.
C14_FreshDeck ==
    /\ Len(createDeck) = 52
    /\ Cardinality(RuleSuits) = 4 /\ Cardinality(RuleRanks) = 13
    /\ \A suit \in RuleSuits :
          /\ Cardinality({k \in 1..Len(createDeck) : createDeck[k].suit = suit}) = 13
          /\ \A rank \in RuleRanks :
                Cardinality({k \in 1..Len(createDeck) :
                    createDeck[k].suit = suit /\ createDeck[k].rank = rank}) = 1
    /\ \A k \in 1..Len(createDeck) :
          /\ createDeck[k].suit \in RuleSuits
          /\ createDeck[k].rank \in RuleRanks
          /\ createDeck[k].value = RuleValue(createDeck[k].rank)
    /\ \A rank \in RuleRanks : cardValue(rank) = RuleValue(rank)
    /\ [][(/\ gameState' # Null
            /\ gameState' # gameState
            /\ gameState'.recruitPool = <<>>
            /\ gameState'.turnLog = <<>>
            /\ Len(gameState'.recruitDeck) = 52)
           => SameCards(gameState'.recruitDeck, createDeck)]_vars

\* C14 witness: a game was begun and its deck is the fresh deck, shuffled
C14_DeckDealt ==
    /\ gameState # Null
    /\ gameState.recruitPool = <<>>
    /\ Len(gameState.recruitDeck) = 52
    /\ gameState.recruitDeck # createDeck

\* the bonus die the rules give an influence value, "null" for none
RuleBonusDie(influence) ==
    CASE influence \in 50..99 -> "d4" [] influence \in 100..149 -> "d6"
      [] influence \in 150..199 -> "d8" [] influence \in 200..249 -> "d10"
      [] influence \in 250..299 -> "d12" [] influence >= 300 -> "d20"
      [] OTHER -> "null"

\* the request made for call id in this step: the die type of the modal
\* opened or of the reaction queued
Requested(id) ==
    IF Len(overlays') > Len(overlays) THEN overlays'[Len(overlays')].dieType
    ELSE microtasks'[Len(microtasks')].request

\* the log entry written in this step
Logged == gameState'.turnLog[Len(gameState'.turnLog)].text

\* C15: the influence bonus die is none below 50, d4 for 50-99, d6 for
\* 100-149, d8 for 150-199, d10 for 200-249, d12 for 250-299 and d20 from 300;
\* after its base roll attemptRecruit requests exactly that die, or none, and
\* the total it records has the bonus roll added to the base roll.
C15_InfluenceBonusDie ==
    /\ \A influence \in 0..500 : getInfluenceDie(influence) = RuleBonusDie(influence)
    /\ [][\A id \in TaskIds :
            (/\ tasks[id] # Idle
             /\ tasks[id].op = "attemptRecruit"
             /\ tasks'[id] # tasks[id])
            => LET die == RuleBonusDie(gameState.influence)
                   roll == Head(microtasks).value
               IN IF tasks[id].pc = "base"
                  THEN IF die = "null"
                       THEN /\ tasks'[id] = Idle
                            /\ Logged.rollBreakdown = <<[die |-> "d10", roll |-> roll]>>
                            /\ Logged.total - Logged.leader = roll
                       ELSE /\ tasks'[id].pc = "bonus"
                            /\ Requested(id) = die
                            /\ gameState' = gameState
                  ELSE /\ tasks'[id] = Idle
                       /\ die # "null"
                       /\ Head(microtasks).request = die
                       /\ Logged.rollBreakdown =
                            <<[die |-> "d10", roll |-> tasks[id].baseRoll],
                              [die |-> die, roll |-> roll]>>
                       /\ Logged.total - Logged.leader = tasks[id].baseRoll + roll]_vars

\* C15 witness: an attempt made at influence 300 has logged a d10 and a d20
C15_BonusRolled ==
    /\ gameState # Null
    /\ gameState.influence = 300
    /\ \E k \in 1..Len(gameState.turnLog) :
          /\ gameState.turnLog[k].text.msg = "Recruit success!"
          /\ Len(gameState.turnLog[k].text.rollBreakdown) = 2
          /\ gameState.turnLog[k].text.rollBreakdown[2].die = "d20"

\* an attempt is started with the supply upgrade: its base die is a d12 and
\* one supply is spent
UpgradedAttempt ==
    /\ Next
    /\ \E id \in TaskIds :
          /\ Started(id, "attemptRecruit")
          /\ Requested(id) = "d12"
          /\ gameState'.supplies = gameState.supplies - 1

\* C16: with at least 1 supply the player may upgrade the base die of an
\* attempt from d10 to d12 for 1 supply: wherever an attempt can be started
\* and supplies >= 1, it can be started with a d12 base roll and supplies
\* lowered by exactly 1.
C16_SupplyUpgrade ==
    (/\ gameState # Null
     /\ gameState.supplies >= 1
     /\ gameState.recruitPool # <<>>
     /\ ~noRecruiter(gameState)
     /\ MayStart(1))
    => ENABLED UpgradedAttempt

\* call id is an attemptRecruit call that takes a step
RecruitStep(id) ==
    /\ tasks'[id] # tasks[id]
    /\ \/ (tasks[id] # Idle /\ tasks[id].op = "attemptRecruit")
       \/ (tasks'[id] # Idle /\ tasks'[id].op = "attemptRecruit")

\* a refusal is logged in this step
RefusalStep ==
    /\ gameState # Null
    /\ gameState' # Null
    /\ gameState'.turnLog =
          Append(gameState.turnLog, [turn |-> gameState.currentTurn, text |-> refusedText])

\* C17: a recruit attempt (none is made with a supply upgrade) spends no
\* resource: every step of attemptRecruit, from the call over its rolls to the
\* logged success or failure, and a refused attempt, leave influence, heat
\* and supplies at their values.
C17_RecruitSpendsNothing ==
    [][((\E id \in TaskIds : RecruitStep(id)) \/ RefusalStep)
          => /\ gameState'.influence = gameState.influence
             /\ gameState'.heat = gameState.heat
             /\ gameState'.supplies = gameState.supplies]_vars

\* C17 witness: a game holding influence and supplies has logged the outcome
\* of an attempt and still holds them
C17_AttemptLogged ==
    /\ gameState # Null
    /\ gameState.influence = 50
    /\ gameState.supplies = 3
    /\ \E k \in 1..Len(gameState.turnLog) :
          gameState.turnLog[k].text.msg \in {"Recruit success!", "Recruit failed."}

\* C18: Dice.roll(dieType) for each die type of d4, d6, d8, d10, d12, d20 and
\* d100 resolves with an integer in 1..max(dieType), with the automatic
\* generator and with the UI.diceInput relay whatever the player submits: a
\* value outside the range is never queued for a call nor handed to it.
C18_RollInRange ==
    /\ \A id \in TaskIds :
          (tasks[id] # Idle /\ tasks[id].pc = "resolved" /\ tasks[id].dieType \in DieTypes)
              => tasks[id].value \in 1..DIE_MAX[tasks[id].dieType]
    /\ \A k \in 1..Len(microtasks) :
          microtasks[k].request \in DieTypes
              => microtasks[k].value \in 1..DIE_MAX[microtasks[k].request]

\* C18 witness: with the relay installed one call has resolved with the
\* highest face of a d100 and another with the lowest face of a d4
C18_BothEndsRolled ==
    /\ diceProvider = "UI.diceInput"
    /\ \E id, other \in TaskIds :
          /\ tasks[id] # Idle /\ tasks[id].pc = "resolved"
          /\ tasks[id].dieType = "d100" /\ tasks[id].value = 100
          /\ tasks[other] # Idle /\ tasks[other].pc = "resolved"
          /\ tasks[other].dieType = "d4" /\ tasks[other].value = 1

\* C19: a roll requested with a die type outside d4, d6, d8, d10, d12, d20
\* and d100 fails at once and yields no value, whichever provider is active:
\* its call is rejected, no modal is opened for it and no value is queued.
C19_UnknownDieFails ==
    /\ \A id \in TaskIds :
          (tasks[id] # Idle /\ tasks[id].dieType \notin DieTypes) => tasks[id].pc = "rejected"
    /\ \A k \in 1..Len(overlays) : overlays[k].dieType \in DieTypes
    /\ \A k \in 1..Len(microtasks) : microtasks[k].request \in DieTypes

\* the reactions queued before this step, less the one this step consumed
\* when it resumes a call
QueueLeft(resumed) == IF resumed THEN Tail(microtasks) ELSE microtasks

\* one reaction is queued behind the others in this step for call id
QueuedLast(id, request, resumed) ==
    /\ Len(microtasks') = Len(QueueLeft(resumed)) + 1
    /\ SubSeq(microtasks', 1, Len(microtasks') - 1) = QueueLeft(resumed)
    /\ microtasks'[Len(microtasks')].task = id
    /\ microtasks'[Len(microtasks')].request = request

\* one modal is opened behind the others in this step
OpenedLast(modal) ==
    /\ Len(overlays') = Len(overlays) + 1
    /\ SubSeq(overlays', 1, Len(overlays)) = overlays
    /\ overlays'[Len(overlays')] = modal

\* the request of call id for a roll of die is served by the installed
\* provider alone, or by the automatic generator alone when none is installed
DiceServed(id, die, resumed) ==
    IF diceProvider # "null"
    THEN /\ OpenedLast([kind |-> "dice", task |-> id, dieType |-> die, max |-> DIE_MAX[die]])
         /\ microtasks' = QueueLeft(resumed)
    ELSE /\ overlays' = overlays
         /\ QueuedLast(id, die, resumed)
         /\ microtasks'[Len(microtasks')].value \in 1..DIE_MAX[die]

\* the request of call id for count cards is served by the installed provider
\* alone (UI.cardInput opens its first prompt, or resolves at once with no
\* card to ask for), or by the automatic draw alone when none is installed
DrawServed(id, count) ==
    IF deckProvider # "null"
    THEN /\ gameState' = gameState
         /\ IF count > 0
            THEN /\ OpenedLast([kind |-> "card", task |-> id, current |-> 1, total |-> count])
                 /\ microtasks' = microtasks
            ELSE /\ overlays' = overlays
                 /\ QueuedLast(id, "draw", FALSE)
                 /\ microtasks'[Len(microtasks')].cards = <<>>
    ELSE /\ overlays' = overlays
         /\ QueuedLast(id, "draw", FALSE)
         /\ microtasks'[Len(microtasks')].cards
                = SubSeq(gameState.recruitDeck, 1, Min(count, Len(gameState.recruitDeck)))

\* a Submit click hands the value entered to the call the modal was opened
\* for, and to no other
SubmitServed ==
    Len(overlays') < Len(overlays) =>
        \E k \in 1..Len(overlays) :
            /\ overlays' = RemoveAt(overlays, k)
            /\ QueuedLast(overlays[k].task,
                    IF overlays[k].kind = "dice" THEN overlays[k].dieType ELSE "pickOneCard",
                    FALSE)
            /\ tasks' = tasks

\* C20: provider injection. With a provider installed on Dice (resp. Deck),
\* every roll (resp. draw) request calls the provider exactly once with the
\* requested die type (resp. count) and resolves with what the provider
\* supplies, the automatic generator unused; with none installed (null) the
\* automatic implementation serves it. One request is one provider call, and
\* provider calls are made in request order.
C20_ProviderInjection ==
    [][/\ \A id \in TaskIds :
            /\ Started(id, "attemptRecruit") => DiceServed(id, "d10", FALSE)
            /\ (/\ tasks[id] # Idle /\ tasks'[id] # Idle
                /\ tasks[id].op = "attemptRecruit"
                /\ tasks[id].pc = "base" /\ tasks'[id].pc = "bonus")
               => /\ DiceServed(id, tasks'[id].bonusDie, TRUE)
                  /\ tasks'[id].baseRoll = Head(microtasks).value
            /\ Started(id, "drawToPool") => DrawServed(id, tasks'[id].count)
       /\ SubmitServed
       /\ gameState' # Null =>
            /\ (diceProvider' = "null") <=> (gameState'.inputMode.dice = "digital")
            /\ (deckProvider' = "null") <=> (gameState'.inputMode.cards = "digital")]_vars

\* C20 witness: with the dice relay installed an attempt has its base roll
\* from the relay and waits in the relay's modal for its bonus die, nothing
\* queued by the automatic generator
C20_RelayAsked ==
    /\ diceProvider = "UI.diceInput"
    /\ microtasks = <<>>
    /\ \E k \in 1..Len(overlays) :
          /\ overlays[k].kind = "dice"
          /\ overlays[k].dieType = "d4"
          /\ tasks[overlays[k].task].pc = "bonus"
          /\ tasks[overlays[k].task].baseRoll = 10

----------------------------------------------------------------------------
(* Interchangeable providers *)

\* the deck without the cards of drawn
Without(deck, drawn) == SelectSeq(deck, LAMBDA c : c \notin Range(drawn))

\* the game the automatic provider leaves when the cards it supplies are
\* drawn: they are off the deck, in the pool and logged
AutomaticDrawResult(gs, drawn) ==
    poolPush([gs EXCEPT !.recruitDeck = Without(@, drawn)], drawn)

\* the dice rolled by attempt id when its last roll is value
RollsOf(id, value) ==
    IF tasks[id].pc = "bonus"
    THEN <<[die |-> "d10", roll |-> tasks[id].baseRoll],
           [die |-> tasks[id].bonusDie, roll |-> value]>>
    ELSE <<[die |-> "d10", roll |-> value]>>

\* C21: the providers are interchangeable. A drawToPool that completes with
\* the supplied cards leaves the game that the automatic provider leaves for
\* those cards (the cards off the deck, appended to the pool, one log entry
\* each), and an attemptRecruit that completes leaves the game decided by the
\* supplied rolls alone, whichever provider supplied them.
C21_ProvidersInterchangeable ==
    [][\A id \in TaskIds :
          /\ Completed(id, "drawToPool")
                => gameState' = AutomaticDrawResult(gameState, Head(microtasks).cards)
          /\ Completed(id, "attemptRecruit")
                => gameState' = recruitResolve(gameState, tasks[id].poolIndex,
                                    tasks[id].card, RollsOf(id, Head(microtasks).value))]_vars

----------------------------------------------------------------------------
(* state.js: save, load and deleteSave on named slots, as the tests and
   continueGame call them *)

TestSlots == {"current", "test-slot-a", "test-slot-b"}

TestKeys == {<<STORAGE_PREFIX, s>> : s \in TestSlots}

\* the games that are saved: the states the tests build from createInitial
\* and a game in play with an initiate and two log entries
SaveStates ==
    { [createInitial EXCEPT !.influence = 42, !.heat = 17, !.supplies = 5,
                            !.currentTurn = 3,
                            !.resistanceValues = <<"Liberty & Freedom">>,
                            !.regimeType = <<"Surveillance State">>],
      [createInitial EXCEPT !.inputMode = [dice |-> "physical", cards |-> "physical"]],
      LET sc == CHOOSE x \in Scenarios : x.influence = 50
          drawn == poolPush(SavedGames[sc], <<createDeck[1]>>)
      IN recruitResolve(drawn, 0, drawn.recruitPool[1], <<[die |-> "d10", roll |-> 10]>>) }

StorageInit ==
    /\ gameState \in SaveStates
    /\ localStorage = [k \in TestKeys |-> NoItem]
    /\ activeScreen = "title"
    /\ screenActive = [s \in ScreenNames |-> s = "title"]
    /\ diceProvider = "null"
    /\ deckProvider = "null"
    /\ tasks = [id \in TaskIds |-> Idle]
    /\ microtasks = <<>>
    /\ overlays = <<>>

NotStored == <<activeScreen, screenActive, diceProvider, deckProvider, tasks,
               microtasks, overlays>>

\* the caller builds the state it is about to save
StorageState(state) ==
    /\ gameState' = state
    /\ UNCHANGED <<localStorage, NotStored>>

StorageSave(slotName) ==
    /\ localStorage' = save(localStorage, gameState, slotName)
    /\ UNCHANGED <<gameState, NotStored>>

StorageDelete(slotName) ==
    /\ localStorage' = deleteSave(localStorage, slotName)
    /\ UNCHANGED <<gameState, NotStored>>

StorageNext ==
    \/ \E state \in SaveStates : StorageState(state)
    \/ \E slotName \in TestSlots : StorageSave(slotName)
    \/ \E slotName \in TestSlots : StorageDelete(slotName)
    \/ continueGame

StorageSpec == StorageInit /\ [][StorageNext]_vars

\* the step is save(gameState, slotName), the slot's item changing
Saved(slotName) ==
    /\ localStorage' # localStorage
    /\ localStorage' = save(localStorage, gameState, slotName)

\* the step is deleteSave(slotName), the slot's item going
Deleted(slotName) ==
    /\ localStorage' # localStorage
    /\ localStorage' = deleteSave(localStorage, slotName)

\* two games agree field for field
SameFields(a, b) ==
    /\ DOMAIN a = DOMAIN b
    /\ \A k \in DOMAIN a : a[k] = b[k]

C23_SlotsIndependent ==
    [][\A a \in TestSlots : \A b \in TestSlots \ {a} :
          (Saved(a) \/ Deleted(a))
             => load(localStorage', b) = load(localStorage, b)]_vars

\* C23 witness: two slots hold different games and a third was deleted after
\* the game on screen was loaded from it
C23_TwoSlots ==
    /\ load(localStorage, "test-slot-a") # Null
    /\ load(localStorage, "test-slot-b") # Null
    /\ load(localStorage, "test-slot-a") # load(localStorage, "test-slot-b")
    /\ localStorage[<<STORAGE_PREFIX, "current">>] = NoItem
    /\ activeScreen = "game"

\* C24: load(slot) returns null exactly when the slot holds no save: for a
\* slot never saved, and after deleteSave(slot), and not after save; the call
\* is possible on every slot. continueGame on a missing 'current' slot
\* changes neither the game nor the active screen.
C24_MissingSlot ==
    /\ \A slotName \in TestSlots : load([k \in TestKeys |-> NoItem], slotName) = Null
    /\ [][/\ \A slotName \in TestSlots :
               /\ Saved(slotName) => load(localStorage', slotName) # Null
               /\ Deleted(slotName) => load(localStorage', slotName) = Null
               /\ (load(localStorage', slotName) = Null)
                     <=> (localStorage'[<<STORAGE_PREFIX, slotName>>] = NoItem)
          /\ load(localStorage, "current") = Null
               => ~ ENABLED (continueGame /\ (gameState' # gameState
                                                \/ activeScreen' # activeScreen
                                                \/ screenActive' # screenActive))]_vars

\* C24 witness: the game screen shows a loaded game whose 'current' save was
\* deleted afterwards, so that load('current') gives null again
C24_DeletedSlot ==
    /\ activeScreen = "game"
    /\ gameState \in SaveStates
    /\ load(localStorage, "current") = Null
    /\ load(localStorage, "test-slot-a") # Null

----------------------------------------------------------------------------
(* The turn log *)

\* the step puts a game in place of the one in memory: beginGame and
\* continueGame
Replaced ==
    /\ UNCHANGED <<tasks, microtasks, overlays>>
    /\ gameState' = load(localStorage', "current")

\* the step is a call that returns without a request: a refused attempt
Synchronous ==
    /\ gameState' # gameState
    /\ UNCHANGED <<tasks, microtasks, overlays>>

\* the entries the step adds to the log
Added == SubSeq(gameState'.turnLog, Len(gameState.turnLog) + 1, Len(gameState'.turnLog))

\* C25: turnLog is append-only: a step of the game in memory leaves the
\* entries it had in place and unaltered and puts new entries at the end, each
\* with the currentTurn of the moment. An attemptRecruit on an existing pool
\* card records exactly one entry (when it is refused, or when it is resolved),
\* a drawToPool records one entry per card drawn, in the order drawn, and the
\* steps between record none.
C25_AppendOnly ==
    [][(gameState # Null /\ gameState' # Null /\ ~ Replaced)
        => /\ Len(gameState.turnLog) <= Len(gameState'.turnLog)
           /\ SubSeq(gameState'.turnLog, 1, Len(gameState.turnLog)) = gameState.turnLog
           /\ \A k \in 1..Len(Added) : Added[k].turn = gameState.currentTurn
           /\ gameState'.currentTurn = gameState.currentTurn
           /\ \A id \in TaskIds :
                /\ Completed(id, "attemptRecruit") =>
                      /\ Len(Added) = 1
                      /\ Added[1].text.msg \in {"Recruit success!", "Recruit failed."}
                /\ Completed(id, "drawToPool") =>
                      LET drawn == Head(microtasks).cards
                      IN /\ Len(Added) = Len(drawn)
                         /\ \A k \in 1..Len(drawn) : Added[k].text = drawText(drawn[k])
           /\ Synchronous =>
                /\ Added = <<[turn |-> gameState.currentTurn, text |-> refusedText]>>
                /\ gameState.recruitPool # <<>>
           /\ (~ Synchronous /\ \A id \in TaskIds : tasks'[id] # Idle \/ tasks[id] = Idle)
                => Added = <<>>]_vars

\* C25 witness: the log holds the entry of a drawn card and, after it, the
\* entry of a resolved attempt, both of turn 1
C25_TwoEntries ==
    /\ gameState # Null
    /\ Len(gameState.turnLog) = 2
    /\ gameState.turnLog[1].text.msg = "Drew to recruit pool."
    /\ gameState.turnLog[2].text.msg \in {"Recruit success!", "Recruit failed."}
    /\ gameState.turnLog[1].turn = 1
    /\ gameState.turnLog[2].turn = 1

----------------------------------------------------------------------------
(* app.js: showScreen, currentScreen and updateLeaderSkill as the page and
   the tests call them *)

\* the operative lists the leader skill tests install
TestOperatives ==
    { <<Card("hearts", "5"), Card("spades", "K"), Card("diamonds", "8")>>,
      <<Card("clubs", "J")>>,
      <<>>,
      <<Card("hearts", "A"), Card("clubs", "9")>> }

AppInit ==
    /\ gameState \in {Null, SavedGames[CHOOSE sc \in Scenarios : sc.influence = 300]}
    /\ activeScreen = "title"
    /\ screenActive = [s \in ScreenNames |-> s = "title"]
    /\ diceProvider = "null"
    /\ deckProvider = "null"
    /\ localStorage = [k \in StorageKeys |-> NoItem]
    /\ tasks = [id \in TaskIds |-> Idle]
    /\ microtasks = <<>>
    /\ overlays = <<>>

NotApp == <<diceProvider, deckProvider, localStorage, tasks, microtasks, overlays>>

AppShowScreen(name) ==
    /\ showScreen(name)
    /\ UNCHANGED <<gameState, NotApp>>

\* state.operatives = [...] of a test
AppSetOperatives(cards) ==
    /\ gameState # Null
    /\ gameState' = [gameState EXCEPT !.operatives = cards]
    /\ UNCHANGED <<activeScreen, screenActive, NotApp>>

\* state.operatives.splice(index, 1) of a test
AppRemoveOperative(index) ==
    /\ gameState # Null
    /\ index < Len(gameState.operatives)
    /\ gameState' = [gameState EXCEPT !.operatives = SpliceRest(@, index, 1)]
    /\ UNCHANGED <<activeScreen, screenActive, NotApp>>

AppUpdateLeaderSkill ==
    /\ IF gameState = Null THEN gameState' = gameState
       ELSE gameState' = updateLeaderSkill(gameState)
    /\ UNCHANGED <<activeScreen, screenActive, NotApp>>

AppNext ==
    \/ \E name \in ScreenNames : AppShowScreen(name)
    \/ \E cards \in TestOperatives : AppSetOperatives(cards)
    \/ \E index \in 0..2 : AppRemoveOperative(index)
    \/ AppUpdateLeaderSkill

AppSpec == AppInit /\ [][AppNext]_vars

\* the highest value among cards, 0 for none
Highest(cards) ==
    IF cards = <<>> THEN 0
    ELSE CHOOSE v \in {cards[k].value : k \in 1..Len(cards)} :
            \A k \in 1..Len(cards) : cards[k].value <= v

\* the step recomputes the leader skill: the operatives stay, the level moves
Recomputed ==
    /\ gameState # Null
    /\ gameState'.operatives = gameState.operatives
    /\ gameState'.leaderSkillLevel # gameState.leaderSkillLevel

\* C26: updateLeaderSkill sets leaderSkillLevel to the maximum value among
\* the current operatives, or to 0 when there are none, and changes nothing
\* else; recomputed after an operative is removed, the level is the maximum of
\* those that remain.
C26_LeaderSkill ==
    [][/\ Recomputed =>
            /\ gameState'.leaderSkillLevel = Highest(gameState.operatives)
            /\ gameState' = [gameState EXCEPT !.leaderSkillLevel = gameState'.leaderSkillLevel]
       /\ gameState' # Null =>
            updateLeaderSkill(gameState') =
                [gameState' EXCEPT !.leaderSkillLevel = Highest(gameState'.operatives)]]_vars

\* C26 witness: the ace was removed from the operatives ace and nine, and the
\* level recomputed is the nine's
C26_Dropped ==
    /\ gameState # Null
    /\ gameState.operatives = <<Card("clubs", "9")>>
    /\ gameState.leaderSkillLevel = 9

\* C27: after any sequence of showScreen calls with names among title, setup,
\* game and victory exactly one screen is active, the one named in the last
\* call, and currentScreen() returns that name.
C27_OneScreen ==
    [][/\ \A name \in ScreenNames :
            AppShowScreen(name) =>
                /\ {s \in ScreenNames : screenActive'[s]} = {name}
                /\ currentScreen' = name
       /\ Cardinality({s \in ScreenNames : screenActive'[s]}) = 1
       /\ screenActive'[currentScreen']]_vars

\* C27 witness: the victory screen is the one screen shown
C27_VictoryShown ==
    /\ currentScreen = "victory"
    /\ screenActive["victory"]
    /\ ~ screenActive["title"]

----------------------------------------------------------------------------
(* Requests that are never answered, and requests that always are *)

\* the modal of call id is answered with a valid value
Answered(id) ==
    \E k \in 1..Len(overlays) :
        /\ overlays[k].task = id
        /\ IF overlays[k].kind = "dice"
           THEN \E entry \in DiceEntries(overlays[k].max) :
                    /\ ~ entry.nan
                    /\ 1 <= entry.n
                    /\ ~ GreaterThan(entry.n, overlays[k].max)
                    /\ diceSubmit(k, entry)
           ELSE \E card \in CardEntries : cardSubmit(k, card.suit, card.rank)

\* the event loop runs the promise reaction at the head of the queue
RunReaction ==
    \/ cardInputNext
    \/ drawToPoolResume
    \/ attemptRecruitBase
    \/ attemptRecruitBonus

\* The program with its scheduling: the event loop runs every queued promise
\* reaction, and the player answers every open modal with a valid value
FairSpec ==
    /\ Spec
    /\ WF_vars(RunReaction)
    /\ \A id \in TaskIds : WF_vars(Answered(id))

\* call id has a request in a modal that is not answered
Waiting(id) == \E k \in 1..Len(overlays) : overlays[k].task = id

\* C28: there is no cancellation. While the request of an attemptRecruit or
\* drawToPool stays unanswered in its modal the call stays suspended where it
\* is; a modal goes only by a valid answer, which is queued for its call; and
\* a call that is left waiting at a request has changed nothing of the game
\* by then. Conversely, when every request is answered with a valid value the
\* call completes: whenever a call is suspended it is later completed, that
\* is, no call stays suspended for ever.
C28_NoCancellation ==
    /\ [][\A id \in TaskIds :
            /\ Waiting(id)' => tasks'[id] # Idle
            /\ (Waiting(id) /\ Waiting(id)') => tasks'[id] = tasks[id]
            /\ (Waiting(id) /\ ~ Waiting(id)') =>
                  /\ tasks'[id] = tasks[id]
                  /\ Len(microtasks') = Len(microtasks) + 1
                  /\ microtasks'[Len(microtasks')].task = id
                  /\ gameState' = gameState
            /\ ((DrawStep(id) \/ RecruitStep(id)) /\ Waiting(id)')
                  => gameState' = gameState]_vars
    /\ \A id \in TaskIds : []<>(tasks[id] = Idle)

\* C28 witness: a drawToPool of two cards has its first card and waits in the
\* prompt for the second, the game still as it was loaded
C28_WaitingSecondCard ==
    /\ gameState # Null
    /\ gameState.turnLog = <<>>
    /\ Len(gameState.recruitPool) = 1
    /\ \E k \in 1..Len(overlays) :
          /\ overlays[k].kind = "card"
          /\ overlays[k].current = 2
          /\ tasks[overlays[k].task].op = "drawToPool"
          /\ Len(tasks[overlays[k].task].cards) = 1

----------------------------------------------------------------------------
(* TurnLifecycle and CrackdownResolver, as specified (sections 4.4 and 4.5):
   turn.js and crackdown.js are planned modules, the application under
   src/ has no end of turn *)

MaxTurn == 4

\* the d100 values the provider supplies at the end of a turn
TurnRolls == {1, 30, 55, 100}

\* Heat at the start of the games whose turns are ended
TurnHeats == {0, 80, 100}

\* timers one turn on
advanceTimers(entries) ==
    [k \in 1..Len(entries) |-> [entries[k] EXCEPT !.turnsRemaining = @ - 1]]

\* the entries whose timer is not up, and the cards of those whose timer is
Running(entries) == SelectSeq(advanceTimers(entries), LAMBDA e : e.turnsRemaining > 0)

Due(entries) == CardsOf(SelectSeq(advanceTimers(entries), LAMBDA e : e.turnsRemaining <= 0))

\* initiates promoted as soon as one turn has passed
advanceInitiates_early(gs) ==
    [gs EXCEPT !.initiates = <<>>,
               !.operatives = @ \o CardsOf(gs.initiates)]

\* step 1: decrement the initiates' timers, promote at 0
advanceInitiates(gs) ==
    [gs EXCEPT !.initiates = Running(@),
               !.operatives = @ \o Due(gs.initiates)]

\* step 2: decrement the detained operatives' timers, release at 0
releaseDetained(gs) ==
    [gs EXCEPT !.detainedOperatives = Running(@),
               !.operatives = @ \o Due(gs.detainedOperatives)]

\* step 3: decrement the multi-turn operations, remove at 0 (their resolution
\* belongs to the operations engine)
advanceOperations(gs) ==
    [gs EXCEPT !.multiTurnOps = Running(@)]

\* tiers whose ranges exclude their upper bounds
crackdownTier_exclusive(r) ==
    IF r < 20 THEN 1 ELSE IF r < 40 THEN 2 ELSE IF r < 60 THEN 3
    ELSE IF r < 80 THEN 4 ELSE 5

\* section 4.4: the tier of roll r
crackdownTier(r) ==
    IF r <= 20 THEN 1 ELSE IF r <= 40 THEN 2 ELSE IF r <= 60 THEN 3
    ELSE IF r <= 80 THEN 4 ELSE 5

\* one operative is lost, its card returned to the deck and reshuffled
loseOperative(gs) ==
    { [gs EXCEPT !.operatives = RemoveAt(@, k),
                 !.recruitDeck = returnCards(@, <<gs.operatives[k]>>, seed)] :
        k \in 1..Len(gs.operatives), seed \in Seeds }

\* one initiate is lost, its card returned to the deck and reshuffled
loseInitiate(gs) ==
    { [gs EXCEPT !.initiates = RemoveAt(@, k),
                 !.recruitDeck = returnCards(@, <<gs.initiates[k].card>>, seed)] :
        k \in 1..Len(gs.initiates), seed \in Seeds }

\* two initiates are lost, or the only one
loseInitiates(gs) ==
    UNION { IF s.initiates = <<>> THEN {s} ELSE loseInitiate(s) : s \in loseInitiate(gs) }

\* a chain that stops at its first link: no operative, no penalty
personnelPenalty_stops(gs) ==
    IF gs.operatives # <<>> THEN loseOperative(gs) ELSE {gs}

\* the chain of tiers 3, 4 and 5: operative, else initiates, else Supplies
personnelPenalty(gs) ==
    IF gs.operatives # <<>> THEN loseOperative(gs)
    ELSE IF gs.initiates # <<>> THEN loseInitiates(gs)
    ELSE {addSupplies(gs, -4)}

\* the games a crackdown of roll r can leave
crackdownOutcomes(gs, r) ==
    CASE crackdownTier(r) = 1 -> {addSupplies(gs, -3)}
      [] crackdownTier(r) = 2 ->
            IF gs.initiates # <<>> THEN loseInitiate(gs) ELSE {addSupplies(gs, -4)}
      [] crackdownTier(r) = 3 -> personnelPenalty(gs)
      [] crackdownTier(r) = 4 -> {addInfluence(s, -20) : s \in personnelPenalty(gs)}
      [] OTHER -> {addInfluence(s, -50) : s \in personnelPenalty(gs)}

\* steps 5, 6 and 8: Heat less the roll, the leader's skill, the turn counter
closeTurn(gs, r) ==
    [updateLeaderSkill(addHeat(gs, -r)) EXCEPT !.currentTurn = @ + 1]

TurnInit ==
    /\ gameState \in {[SavedGames[CHOOSE sc \in Scenarios : sc.influence = 50]
                          EXCEPT !.heat = h] : h \in TurnHeats}
    /\ activeScreen = "game"
    /\ screenActive = [s \in ScreenNames |-> s = "game"]
    /\ diceProvider = "null"
    /\ deckProvider = "null"
    /\ localStorage = [k \in StorageKeys |-> NoItem]
    /\ tasks = [id \in TaskIds |-> Idle]
    /\ microtasks = <<>>
    /\ overlays = <<>>

NotTurn == <<activeScreen, screenActive, diceProvider, deckProvider, localStorage, overlays>>

\* a recruit attempt that succeeds on a base roll of 10, early enough for the
\* initiate to mature by turn MaxTurn
TurnRecruit(poolIndex) ==
    /\ Quiet
    /\ gameState.currentTurn + 2 <= MaxTurn
    /\ poolIndex < Len(gameState.recruitPool)
    /\ LET card == gameState.recruitPool[poolIndex + 1]
           rolls == <<[die |-> "d10", roll |-> 10]>>
       IN /\ recruitSuccess(gameState, card, rolls)
          /\ gameState' = recruitResolve(gameState, poolIndex, card, rolls)
    /\ UNCHANGED <<tasks, microtasks, NotTurn>>

\* endTurn up to its roll: steps 1 to 3, then the d100 is requested and the
\* provider supplies r
endTurn ==
    /\ Quiet
    /\ gameState.currentTurn < MaxTurn
    /\ gameState' = advanceOperations(releaseDetained(advanceInitiates(gameState)))
    /\ tasks' = [tasks EXCEPT ![NewId] =
            [op |-> "endTurn", pc |-> "roll", promoted |-> Due(gameState.initiates)]]
    /\ \E r \in TurnRolls :
          microtasks' = Append(microtasks, [task |-> NewId, request |-> "d100", value |-> r])
    /\ UNCHANGED NotTurn

\* endTurn whose crackdown needs the roll to be below Heat
endTurnResume_below ==
    /\ microtasks # <<>>
    /\ LET m == Head(microtasks)
       IN /\ tasks[m.task].op = "endTurn"
          /\ \E s \in (IF m.value < gameState.heat
                       THEN crackdownOutcomes(gameState, m.value) ELSE {gameState}) :
                gameState' = closeTurn(s, m.value)
          /\ tasks' = [tasks EXCEPT ![m.task] = Idle]
    /\ microtasks' = Tail(microtasks)
    /\ UNCHANGED NotTurn

\* endTurn resumed with the roll: steps 4 to 8
endTurnResume ==
    /\ microtasks # <<>>
    /\ LET m == Head(microtasks)
       IN /\ tasks[m.task].op = "endTurn"
          /\ \E s \in (IF m.value <= gameState.heat
                       THEN crackdownOutcomes(gameState, m.value) ELSE {gameState}) :
                gameState' = closeTurn(s, m.value)
          /\ tasks' = [tasks EXCEPT ![m.task] = Idle]
    /\ microtasks' = Tail(microtasks)
    /\ UNCHANGED NotTurn

TurnNext ==
    \/ \E poolIndex \in 0..MaxCount : TurnRecruit(poolIndex)
    \/ endTurn
    \/ endTurnResume

TurnSpec == TurnInit /\ [][TurnNext]_vars

\* the cards that are initiates
InitiateCards == Range(CardsOf(gameState.initiates))

\* the timers move as the rule says when an end of turn starts: 2 becomes 1
\* and the card stays an initiate, 1 is up and the card is promoted; a
\* successful recruit enters with a timer of 2, and no initiate has another
\* timer than 1 or 2
TimersAdvance ==
    /\ \A k \in 1..Len(gameState.initiates) :
          gameState.initiates[k].turnsRemaining \in {1, 2}
    /\ \A id \in TaskIds :
          Started(id, "endTurn") =>
             \A k \in 1..Len(gameState.initiates) :
                LET e == gameState.initiates[k]
                IN IF e.turnsRemaining = 2
                   THEN /\ e.card \notin Range(gameState'.operatives)
                        /\ [card |-> e.card, turnsRemaining |-> 1] \in Range(gameState'.initiates)
                   ELSE /\ e.card \in Range(gameState'.operatives)
                        /\ e.card \notin InitiateCards'
    /\ (Quiet /\ Quiet' /\ Len(gameState'.initiates) > Len(gameState.initiates)) =>
          /\ Len(gameState'.initiates) = Len(gameState.initiates) + 1
          /\ gameState'.initiates[Len(gameState'.initiates)].turnsRemaining = 2

\* C29 as claimed: a card recruited successfully (timer 2) becomes an
\* operative after exactly two end-of-turn steps and not earlier: the first
\* step leaves it an initiate with timer 1, the second leaves it an operative.
C29_MaturesInTwo ==
    [][/\ TimersAdvance
       /\ \A id \in TaskIds :
             Completed(id, "endTurn") =>
                /\ \A c \in Range(tasks[id].promoted) : c \in Range(gameState'.operatives)
                /\ gameState'.initiates = gameState.initiates]_vars

\* C29 amended: a card recruited successfully (timer 2) is promoted by its
\* second end-of-turn step and not by the first, unless a crackdown of one of
\* the two steps takes the card, which returns it to the recruit deck; the
\* crackdown promotes nobody, so every initiate leaves initiates within two
\* end-of-turn steps.
C29_MaturesUnlessCaptured ==
    [][/\ TimersAdvance
       /\ \A id \in TaskIds :
             Completed(id, "endTurn") =>
                /\ \A c \in Range(tasks[id].promoted) :
                      \/ c \in Range(gameState'.operatives)
                      \/ c \in Range(gameState'.recruitDeck)
                /\ \A k \in 1..Len(gameState.initiates) :
                      \/ gameState.initiates[k] \in Range(gameState'.initiates)
                      \/ gameState.initiates[k].card \in Range(gameState'.recruitDeck)
                /\ \A c \in Range(gameState'.operatives) :
                      c \in Range(gameState.operatives)]_vars

\* C29 witness: with no Heat a card recruited in turn 1 is an operative in
\* turn 3, the other pool card recruited a turn later still an initiate
C29_Promoted ==
    /\ Quiet
    /\ gameState.heat = 0
    /\ gameState.currentTurn = 3
    /\ Len(gameState.operatives) = 2
    /\ Len(gameState.initiates) = 1
    /\ gameState.initiates[1].turnsRemaining = 1

\* the step applies no penalty
Unpenalised ==
    /\ gameState'.supplies = gameState.supplies
    /\ gameState'.influence = gameState.influence
    /\ gameState'.initiates = gameState.initiates
    /\ gameState'.operatives = gameState.operatives
    /\ gameState'.recruitDeck = gameState.recruitDeck

\* C30: at the end of a turn one d100 roll r is requested; a crackdown is
\* applied if and only if r <= heat (a penalty shows, unless there are no
\* supplies left to take), afterwards heat = max(0, heat - r) with the same
\* r, and currentTurn is one more.
C30_EndOfTurnRoll ==
    [][\A id \in TaskIds :
          /\ Started(id, "endTurn") =>
                /\ QueuedLast(id, "d100", FALSE)
                /\ gameState'.heat = gameState.heat
                /\ gameState'.currentTurn = gameState.currentTurn
          /\ Completed(id, "endTurn") =>
                LET r == Head(microtasks).value
                IN /\ microtasks' = Tail(microtasks)
                   /\ gameState'.heat = Max(0, gameState.heat - r)
                   /\ gameState'.currentTurn = gameState.currentTurn + 1
                   /\ r > gameState.heat => Unpenalised
                   /\ r <= gameState.heat => (~ Unpenalised \/ gameState.supplies = 0)]_vars

\* C30 witness: Heat 80 and a roll of 55: the crackdown took the operative,
\* whose card is back in the deck, and Heat is 25 in turn 2
C30_Heat80Roll55 ==
    /\ Quiet
    /\ gameState.heat = 25
    /\ gameState.currentTurn = 2
    /\ gameState.operatives = <<>>
    /\ Len(gameState.recruitDeck) = 50

----------------------------------------------------------------------------
(* The CrackdownResolver of section 4.4 on its own: crackdown.js is a planned
   module, its unit tests call it with a roll and a game *)

\* the d100 values the resolver is called with
CrackdownRolls == 1..100

\* Heat of the games the resolver is called on
CrackdownHeats == {60, 100}

\* personnel and Supplies of the games the resolver is called on
MaxInitiates == 3

CrackdownSupplies == {0, 3, 5}

\* a game in play with o operatives, i initiates taken from the deck, s Supplies
CrackdownGame(o, i, s, h) ==
    LET gs == SavedGames[CHOOSE sc \in Scenarios : sc.influence = 50]
    IN updateLeaderSkill(
         [gs EXCEPT !.operatives = SubSeq(@, 1, o),
                    !.initiates = [k \in 1..i |->
                                     [card |-> gs.recruitDeck[k], turnsRemaining |-> 2]],
                    !.recruitDeck = SubSeq(@, i + 1, Len(@)),
                    !.supplies = s,
                    !.heat = h])

CrackdownInit ==
    /\ gameState \in {CrackdownGame(o, i, s, h) :
                        o \in 0..1, i \in 0..MaxInitiates,
                        s \in CrackdownSupplies, h \in CrackdownHeats}
    /\ activeScreen = "game"
    /\ screenActive = [s \in ScreenNames |-> s = "game"]
    /\ diceProvider = "null"
    /\ deckProvider = "null"
    /\ localStorage = [k \in StorageKeys |-> NoItem]
    /\ tasks = [id \in TaskIds |-> Idle]
    /\ microtasks = <<>>
    /\ overlays = <<>>

NotCrackdown == <<activeScreen, screenActive, diceProvider, deckProvider, localStorage,
                  microtasks, overlays>>

\* the resolver called once with roll r and its penalty applied: NoCrackdown
\* when r > heat; the call and its roll are what tasks[1] keeps
resolveCrackdown(r) ==
    /\ Quiet
    /\ gameState' \in (IF r <= gameState.heat
                       THEN crackdownOutcomes(gameState, r) ELSE {gameState})
    /\ tasks' = [tasks EXCEPT ![1] = [op |-> "resolveCrackdown", roll |-> r]]
    /\ UNCHANGED NotCrackdown

CrackdownNext == \E r \in CrackdownRolls : resolveCrackdown(r)

CrackdownSpec == CrackdownInit /\ [][CrackdownNext]_vars

\* the resolver is called with roll r in this step
Resolved(r) ==
    /\ tasks[1] = Idle
    /\ tasks'[1] # Idle
    /\ tasks'[1].op = "resolveCrackdown"
    /\ tasks'[1].roll = r

\* a game on which each tier shows its primary penalty in full
FullGame ==
    /\ gameState.operatives # <<>>
    /\ gameState.initiates # <<>>
    /\ gameState.supplies >= 3
    /\ gameState.influence >= 50

\* what the primary penalty of tier t does to a full game
PrimaryPenalty(t) ==
    CASE t = 1 -> /\ gameState'.supplies = gameState.supplies - 3
                  /\ gameState'.operatives = gameState.operatives
                  /\ gameState'.initiates = gameState.initiates
                  /\ gameState'.influence = gameState.influence
      [] t = 2 -> /\ gameState'.supplies = gameState.supplies
                  /\ gameState'.operatives = gameState.operatives
                  /\ Len(gameState'.initiates) = Len(gameState.initiates) - 1
                  /\ gameState'.influence = gameState.influence
      [] OTHER -> /\ gameState'.supplies = gameState.supplies
                  /\ Len(gameState'.operatives) = Len(gameState.operatives) - 1
                  /\ gameState'.initiates = gameState.initiates
                  /\ gameState'.influence =
                        gameState.influence - (IF t = 3 THEN 0 ELSE IF t = 4 THEN 20 ELSE 50)

\* C31: the tier of a crackdown is selected by the range of its roll, upper
\* bounds inclusive: 1-20 Tier 1, 21-40 Tier 2, 41-60 Tier 3, 61-80 Tier 4,
\* 81-100 Tier 5, so that every roll of 1..100 has exactly one tier, the one
\* whose primary penalty a full game shows.
C31_TierByRange ==
    [][\A r \in 1..100 :
          (Resolved(r) /\ FullGame /\ r <= gameState.heat) =>
             /\ {t \in 1..5 : PrimaryPenalty(t)} = {((r - 1) \div 20) + 1}
             /\ r = 20 => PrimaryPenalty(1)
             /\ r = 21 => PrimaryPenalty(2)
             /\ r = 60 => PrimaryPenalty(3)
             /\ r = 61 => PrimaryPenalty(4)
             /\ r = 100 => PrimaryPenalty(5)]_vars

\* C31 witness: a roll of 21 on a full game took one of three initiates and
\* nothing else
C31_Roll21 ==
    /\ tasks[1] # Idle
    /\ tasks[1].op = "resolveCrackdown"
    /\ tasks[1].roll = 21
    /\ Len(gameState.initiates) = 2
    /\ Len(gameState.operatives) = 1
    /\ gameState.supplies = 5
    /\ gameState.influence = 50

\* every card of the game, deck included
AllCards(gs) == gs.recruitDeck \o InPlay(gs)

\* C32: a crackdown of Tier 3, 4 or 5 takes an operative if there is one,
\* otherwise initiates (two, or the only one), otherwise Supplies; a Tier 2
\* crackdown with no initiate costs 4 Supplies; a crackdown changes the game
\* unless all it can take is Supplies and there are none; and every card lost
\* is in recruitDeck afterwards, the game holding the same cards as before.
C32_Cascade ==
    [][\A r \in 1..100 :
          (Resolved(r) /\ r <= gameState.heat) =>
             LET t == crackdownTier(r)
                 gs == gameState
             IN /\ t >= 3 =>
                     IF gs.operatives # <<>>
                     THEN /\ Len(gameState'.operatives) = Len(gs.operatives) - 1
                          /\ gameState'.initiates = gs.initiates
                          /\ gameState'.supplies = gs.supplies
                     ELSE IF gs.initiates # <<>>
                     THEN /\ gameState'.operatives = gs.operatives
                          /\ Len(gameState'.initiates) = Max(0, Len(gs.initiates) - 2)
                          /\ gameState'.supplies = gs.supplies
                     ELSE /\ gameState'.operatives = gs.operatives
                          /\ gameState'.initiates = gs.initiates
                          /\ gameState'.supplies < gs.supplies \/ gs.supplies = 0
                /\ (t = 2 /\ gs.initiates = <<>>) =>
                      /\ gameState'.supplies = Max(0, gs.supplies - 4)
                      /\ gameState'.operatives = gs.operatives
                /\ gameState' # gs \/ gs.supplies = 0
                /\ SameCards(AllCards(gameState'), AllCards(gs))
                /\ \A c \in Range(gs.operatives \o CardsOf(gs.initiates)) :
                      \/ c \in Range(gameState'.operatives \o CardsOf(gameState'.initiates))
                      \/ c \in Range(gameState'.recruitDeck)]_vars

\* C32 witness: a Tier 3 crackdown (roll 41) found nobody and took 4 of 5 Supplies
C32_DoubleCascade ==
    /\ tasks[1] # Idle
    /\ tasks[1].op = "resolveCrackdown"
    /\ tasks[1].roll = 41
    /\ gameState.operatives = <<>>
    /\ gameState.initiates = <<>>
    /\ gameState.supplies = 1
    /\ Len(gameState.recruitDeck) = 49

----------------------------------------------------------------------------
(* Physical dice entry *)

\* the entry is not a number, is below 1 or is above the maximum of the die
InvalidEntry(entry, max) == entry.nan \/ entry.n < 1 \/ (max # undefined /\ entry.n > max)

\* what a Submit of modal k with a valid entry does, and nothing else
Accepted(k, entry) ==
    /\ overlays' = RemoveAt(overlays, k)
    /\ microtasks' = Append(microtasks,
            [task |-> overlays[k].task, request |-> overlays[k].dieType, value |-> entry.n])
    /\ tasks' = tasks

\* while its prompt is open a roll is suspended and nothing is queued for it;
\* an invalid Submit changes nothing, a valid one removes the prompt and
\* queues the entry for the roll
PromptOpen ==
    \A k \in Modals("dice") :
       /\ tasks[overlays[k].task] # Idle
       /\ tasks[overlays[k].task].pc = "pending"
       /\ \A j \in 1..Len(microtasks) : microtasks[j].task # overlays[k].task
       /\ \A entry \in DiceEntries(overlays[k].max) :
             IF InvalidEntry(entry, overlays[k].max)
             THEN ~ ENABLED (diceSubmit(k, entry) /\ vars' # vars)
             ELSE /\ ENABLED (diceSubmit(k, entry) /\ Accepted(k, entry))
                  /\ ~ ENABLED (diceSubmit(k, entry) /\ ~ Accepted(k, entry))

\* C33: a Submit of a dice prompt that is not a number, is below 1 or is above
\* the die's maximum resolves nothing and leaves the prompt open; a prompt goes
\* only with a valid entry queued for its roll, and the roll resolves with
\* exactly that value, its prompt gone.
C33_InvalidEntryRejected ==
    /\ []PromptOpen
    /\ [][/\ \A k \in Modals("dice") :
                (overlays[k] \notin Range(overlays')) =>
                    /\ overlays' = RemoveAt(overlays, k)
                    /\ QueuedLast(overlays[k].task, overlays[k].dieType, FALSE)
                    /\ ~ InvalidEntry([nan |-> FALSE, n |-> microtasks'[Len(microtasks')].value],
                                      overlays[k].max)
          /\ \A id \in TaskIds :
                (/\ diceProvider # "null"
                 /\ tasks[id] # Idle /\ tasks[id].op = "Dice.roll" /\ tasks[id].pc = "pending"
                 /\ tasks'[id] # tasks[id]) =>
                    /\ microtasks # <<>>
                    /\ Head(microtasks).task = id
                    /\ tasks'[id].pc = "resolved"
                    /\ tasks'[id].value = Head(microtasks).value
                    /\ \A k \in 1..Len(overlays') : overlays'[k].task # id]_vars

\* C33 witness: with the relay installed a d6 roll has resolved with the 6
\* that was entered while the prompt of another d6 roll is still open
C33_ResolvedAndOpen ==
    /\ diceProvider = "UI.diceInput"
    /\ \E k \in Modals("dice") : overlays[k].dieType = "d6"
    /\ \E id \in TaskIds :
          /\ tasks[id] # Idle /\ tasks[id].pc = "resolved"
          /\ tasks[id].dieType = "d6" /\ tasks[id].value = 6
          /\ \A k \in 1..Len(overlays) : overlays[k].task # id

----------------------------------------------------------------------------
(* Entering a game *)

\* the step is a beginGame: a game without history is put in memory
Begun ==
    /\ UNCHANGED <<tasks, microtasks, overlays>>
    /\ gameState' # gameState
    /\ gameState' # Null
    /\ gameState'.turnLog = <<>>
    /\ localStorage' # localStorage \/ gameState' = load(localStorage, "current")

\* the step is a continueGame: the game of slot 'current' is put in memory
Continued ==
    /\ UNCHANGED <<tasks, microtasks, overlays, localStorage>>
    /\ gameState' # gameState
    /\ gameState' = load(localStorage, "current")

\* C34: after beginGame or continueGame the dice relay is installed if and
\* only if inputMode.dice is 'physical', the card relay if and only if
\* inputMode.cards is 'physical', and null otherwise, each whatever the other
\* and whatever was installed before, so that a game continued from slot
\* 'current' runs in the input mode it was saved with.
C34_ProvidersFollowMode ==
    [][(Begun \/ Continued) =>
          /\ diceProvider' = (IF gameState'.inputMode.dice = "physical"
                              THEN "UI.diceInput" ELSE "null")
          /\ deckProvider' = (IF gameState'.inputMode.cards = "physical"
                              THEN "UI.cardInput" ELSE "null")
          /\ gameState'.inputMode.dice \in InputModes
          /\ gameState'.inputMode.cards \in InputModes
          /\ activeScreen' = "game"]_vars

\* C34 witness: a game saved with physical dice and automatic cards has been
\* continued: the dice relay is installed and the card relay is not
C34_MixedModeContinued ==
    /\ gameState # Null
    /\ gameState = load(localStorage, "current")
    /\ gameState.influence = 50
    /\ gameState.inputMode = [dice |-> "physical", cards |-> "digital"]
    /\ diceProvider = "UI.diceInput"
    /\ deckProvider = "null"
    /\ activeScreen = "game"

\* the step only adds to the log of the game in memory
LogOnly ==
    /\ gameState # Null
    /\ gameState' # Null
    /\ gameState' = [gameState EXCEPT !.turnLog = gameState'.turnLog]

\* the step is a beginGame: a call that returns at once and is neither a
\* continueGame nor a refused attempt
Began ==
    /\ UNCHANGED <<tasks, microtasks, overlays>>
    /\ gameState' # gameState
    /\ ~ Continued
    /\ ~ LogOnly

\* C35: beginGame yields a fresh game whatever game was in memory: influence,
\* heat and supplies 0, currentTurn 1, leaderSkillLevel 0, recruitDeck the 52
\* distinct cards, recruitPool, initiates, operatives, detainedOperatives and
\* turnLog empty, the state saved in slot 'current', the game screen active.
C35_FreshGame ==
    [][Began =>
          /\ gameState' # Null
          /\ gameState'.influence = 0
          /\ gameState'.heat = 0
          /\ gameState'.supplies = 0
          /\ gameState'.currentTurn = 1
          /\ gameState'.leaderSkillLevel = 0
          /\ Len(gameState'.recruitDeck) = 52
          /\ Range(gameState'.recruitDeck) = Range(createDeck)
          /\ gameState'.recruitPool = <<>>
          /\ gameState'.initiates = <<>>
          /\ gameState'.operatives = <<>>
          /\ gameState'.detainedOperatives = <<>>
          /\ gameState'.turnLog = <<>>
          /\ load(localStorage', "current") = gameState'
          /\ activeScreen' = "game"
          /\ screenActive' = [s \in ScreenNames |-> s = "game"]]_vars

\* C35 witness: a fresh game with physical cards is in memory and saved, its
\* deck shuffled, on the game screen
C35_FreshShuffled ==
    /\ gameState # Null
    /\ gameState.turnLog = <<>>
    /\ gameState.recruitPool = <<>>
    /\ gameState.operatives = <<>>
    /\ Len(gameState.recruitDeck) = 52
    /\ gameState.recruitDeck # createDeck
    /\ gameState.inputMode.cards = "physical"
    /\ deckProvider = "UI.cardInput"
    /\ load(localStorage, "current") = gameState
    /\ activeScreen = "game"

----------------------------------------------------------------------------
(* The save of the game in play *)

\* C36: whenever no call of the engine is in progress, slot 'current' holds
\* exactly the game in memory: every operation that changes the game, one that
\* only adds to turnLog included, has saved it by the time it completes.
C36_SavedWhenQuiet ==
    (Quiet /\ gameState # Null) => load(localStorage, "current") = gameState

----------------------------------------------------------------------------
(* Interleaved recruit attempts *)

\* C37: under any interleaving of attemptRecruit and drawToPool calls, a
\* successful attemptRecruit removes from recruitPool the very card it adds to
\* initiates and no other: no card is in both recruitPool and initiates, none
\* is twice in initiates, none leaves the pool without becoming an initiate.
C37_RecruitedCardLeavesPool ==
    [][\A id \in TaskIds :
          (Completed(id, "attemptRecruit")
             /\ Len(gameState'.initiates) > Len(gameState.initiates)) =>
                LET c == gameState'.initiates[Len(gameState'.initiates)].card
                IN /\ Count(gameState'.recruitPool, c) = Count(gameState.recruitPool, c) - 1
                   /\ \A d \in Range(gameState.recruitPool) \ {c} :
                         Count(gameState'.recruitPool, d) = Count(gameState.recruitPool, d)
                   /\ Count(CardsOf(gameState'.initiates), c)
                         <= Max(1, Count(gameState.recruitPool, c))
                   /\ (Count(gameState.recruitPool, c) <= 1) =>
                         c \notin Range(gameState'.recruitPool)]_vars

====
